---- MODULE Spec2Model ----
(***************************************************************************)
(* Heading extraction from page-annotated text                             *)
(* (AdvancedPDFHeadingExtractor, src/src/app.py).                          *)
(*                                                                         *)
(* A Python str is a sequence of Unicode code points (natural numbers      *)
(* below 1114112).  Positions of lines are 0-based as in the source; a     *)
(* sequence is indexed from 1, so the line at position i is lines[i + 1].  *)
(***************************************************************************)
EXTENDS Integers, Sequences, FiniteSets, TLC

(***************************************************************************)
(* Characters and the str / re primitives the extractor uses               *)
(***************************************************************************)

\* A character class is the ascending sequence of the bounds of its
\* intervals of code points, <<a1, b1, a2, b2, ...>> for a1..b1, a2..b2,
\* ...; the classes are those of CPython 3.11 (Unicode 14.0).

\* the index of the first entry of the table t, w numbers to the entry
\* and the upper bound second, whose upper bound is at least c; one more
\* than the number of entries when c is above them all
EntryOf(c, t, w) ==
  LET n == Len(t) \div w
  IN  CHOOSE k \in 1..(n + 1) :
        /\ (k = n + 1 \/ c <= t[w * (k - 1) + 2])
        /\ (k = 1 \/ t[w * (k - 2) + 2] < c)

\* c is a character of the class cls
In(c, cls) ==
  LET k == EntryOf(c, cls, 2)
  IN  k <= Len(cls) \div 2 /\ cls[2 * k - 1] <= c

\* \d of the re module: the decimal digits (category Nd), in runs of ten
\* from the zero of each script
Digits ==
  << 48, 57, 1632, 1641, 1776, 1785, 1984, 1993, 2406, 2415, 2534, 2543,
   2662, 2671, 2790, 2799, 2918, 2927, 3046, 3055, 3174, 3183, 3302,
   3311, 3430, 3439, 3558, 3567, 3664, 3673, 3792, 3801, 3872, 3881,
   4160, 4169, 4240, 4249, 6112, 6121, 6160, 6169, 6470, 6479, 6608,
   6617, 6784, 6793, 6800, 6809, 6992, 7001, 7088, 7097, 7232, 7241,
   7248, 7257, 42528, 42537, 43216, 43225, 43264, 43273, 43472, 43481,
   43504, 43513, 43600, 43609, 44016, 44025, 65296, 65305, 66720,
   66729, 68912, 68921, 69734, 69743, 69872, 69881, 69942, 69951,
   70096, 70105, 70384, 70393, 70736, 70745, 70864, 70873, 71248,
   71257, 71360, 71369, 71472, 71481, 71904, 71913, 72016, 72025,
   72784, 72793, 73040, 73049, 73120, 73129, 92768, 92777, 92864,
   92873, 93008, 93017, 120782, 120831, 123200, 123209, 123632,
   123641, 125264, 125273, 130032, 130041>>

\* the characters c with c.isdigit(): the decimal digits and the
\* superscript, subscript, circled and other digit characters
DigitProperty ==
  << 48, 57, 178, 179, 185, 185, 1632, 1641, 1776, 1785, 1984, 1993,
   2406, 2415, 2534, 2543, 2662, 2671, 2790, 2799, 2918, 2927, 3046,
   3055, 3174, 3183, 3302, 3311, 3430, 3439, 3558, 3567, 3664, 3673,
   3792, 3801, 3872, 3881, 4160, 4169, 4240, 4249, 4969, 4977, 6112,
   6121, 6160, 6169, 6470, 6479, 6608, 6618, 6784, 6793, 6800, 6809,
   6992, 7001, 7088, 7097, 7232, 7241, 7248, 7257, 8304, 8304, 8308,
   8313, 8320, 8329, 9312, 9320, 9332, 9340, 9352, 9360, 9450, 9450,
   9461, 9469, 9471, 9471, 10102, 10110, 10112, 10120, 10122, 10130,
   42528, 42537, 43216, 43225, 43264, 43273, 43472, 43481, 43504,
   43513, 43600, 43609, 44016, 44025, 65296, 65305, 66720, 66729,
   68160, 68163, 68912, 68921, 69216, 69224, 69714, 69722, 69734,
   69743, 69872, 69881, 69942, 69951, 70096, 70105, 70384, 70393,
   70736, 70745, 70864, 70873, 71248, 71257, 71360, 71369, 71472,
   71481, 71904, 71913, 72016, 72025, 72784, 72793, 73040, 73049,
   73120, 73129, 92768, 92777, 92864, 92873, 93008, 93017, 120782,
   120831, 123200, 123209, 123632, 123641, 125264, 125273, 127232,
   127242, 130032, 130041>>

\* \s of the re module, and the characters str.strip() removes
Spaces ==
  << 9, 13, 28, 32, 133, 133, 160, 160, 5760, 5760, 8192, 8202, 8232,
   8233, 8239, 8239, 8287, 8287, 12288, 12288>>

Dots ==
  <<46 (* '.' *), 46 (* '.' *)>>

\* every character but the newline
NotNewline ==
  <<0, 9, 11, 1114111>>

\* the characters c with c.isupper()
UpperLetters ==
  << 65, 90, 192, 214, 216, 222, 256, 256, 258, 258, 260, 260, 262, 262,
   264, 264, 266, 266, 268, 268, 270, 270, 272, 272, 274, 274, 276,
   276, 278, 278, 280, 280, 282, 282, 284, 284, 286, 286, 288, 288,
   290, 290, 292, 292, 294, 294, 296, 296, 298, 298, 300, 300, 302,
   302, 304, 304, 306, 306, 308, 308, 310, 310, 313, 313, 315, 315,
   317, 317, 319, 319, 321, 321, 323, 323, 325, 325, 327, 327, 330,
   330, 332, 332, 334, 334, 336, 336, 338, 338, 340, 340, 342, 342,
   344, 344, 346, 346, 348, 348, 350, 350, 352, 352, 354, 354, 356,
   356, 358, 358, 360, 360, 362, 362, 364, 364, 366, 366, 368, 368,
   370, 370, 372, 372, 374, 374, 376, 377, 379, 379, 381, 381, 385,
   386, 388, 388, 390, 391, 393, 395, 398, 401, 403, 404, 406, 408,
   412, 413, 415, 416, 418, 418, 420, 420, 422, 423, 425, 425, 428,
   428, 430, 431, 433, 435, 437, 437, 439, 440, 444, 444, 452, 452,
   455, 455, 458, 458, 461, 461, 463, 463, 465, 465, 467, 467, 469,
   469, 471, 471, 473, 473, 475, 475, 478, 478, 480, 480, 482, 482,
   484, 484, 486, 486, 488, 488, 490, 490, 492, 492, 494, 494, 497,
   497, 500, 500, 502, 504, 506, 506, 508, 508, 510, 510, 512, 512,
   514, 514, 516, 516, 518, 518, 520, 520, 522, 522, 524, 524, 526,
   526, 528, 528, 530, 530, 532, 532, 534, 534, 536, 536, 538, 538,
   540, 540, 542, 542, 544, 544, 546, 546, 548, 548, 550, 550, 552,
   552, 554, 554, 556, 556, 558, 558, 560, 560, 562, 562, 570, 571,
   573, 574, 577, 577, 579, 582, 584, 584, 586, 586, 588, 588, 590,
   590, 880, 880, 882, 882, 886, 886, 895, 895, 902, 902, 904, 906,
   908, 908, 910, 911, 913, 929, 931, 939, 975, 975, 978, 980, 984,
   984, 986, 986, 988, 988, 990, 990, 992, 992, 994, 994, 996, 996,
   998, 998, 1000, 1000, 1002, 1002, 1004, 1004, 1006, 1006, 1012,
   1012, 1015, 1015, 1017, 1018, 1021, 1071, 1120, 1120, 1122, 1122,
   1124, 1124, 1126, 1126, 1128, 1128, 1130, 1130, 1132, 1132, 1134,
   1134, 1136, 1136, 1138, 1138, 1140, 1140, 1142, 1142, 1144, 1144,
   1146, 1146, 1148, 1148, 1150, 1150, 1152, 1152, 1162, 1162, 1164,
   1164, 1166, 1166, 1168, 1168, 1170, 1170, 1172, 1172, 1174, 1174,
   1176, 1176, 1178, 1178, 1180, 1180, 1182, 1182, 1184, 1184, 1186,
   1186, 1188, 1188, 1190, 1190, 1192, 1192, 1194, 1194, 1196, 1196,
   1198, 1198, 1200, 1200, 1202, 1202, 1204, 1204, 1206, 1206, 1208,
   1208, 1210, 1210, 1212, 1212, 1214, 1214, 1216, 1217, 1219, 1219,
   1221, 1221, 1223, 1223, 1225, 1225, 1227, 1227, 1229, 1229, 1232,
   1232, 1234, 1234, 1236, 1236, 1238, 1238, 1240, 1240, 1242, 1242,
   1244, 1244, 1246, 1246, 1248, 1248, 1250, 1250, 1252, 1252, 1254,
   1254, 1256, 1256, 1258, 1258, 1260, 1260, 1262, 1262, 1264, 1264,
   1266, 1266, 1268, 1268, 1270, 1270, 1272, 1272, 1274, 1274, 1276,
   1276, 1278, 1278, 1280, 1280, 1282, 1282, 1284, 1284, 1286, 1286,
   1288, 1288, 1290, 1290, 1292, 1292, 1294, 1294, 1296, 1296, 1298,
   1298, 1300, 1300, 1302, 1302, 1304, 1304, 1306, 1306, 1308, 1308,
   1310, 1310, 1312, 1312, 1314, 1314, 1316, 1316, 1318, 1318, 1320,
   1320, 1322, 1322, 1324, 1324, 1326, 1326, 1329, 1366, 4256, 4293,
   4295, 4295, 4301, 4301, 5024, 5109, 7312, 7354, 7357, 7359, 7680,
   7680, 7682, 7682, 7684, 7684, 7686, 7686, 7688, 7688, 7690, 7690,
   7692, 7692, 7694, 7694, 7696, 7696, 7698, 7698, 7700, 7700, 7702,
   7702, 7704, 7704, 7706, 7706, 7708, 7708, 7710, 7710, 7712, 7712,
   7714, 7714, 7716, 7716, 7718, 7718, 7720, 7720, 7722, 7722, 7724,
   7724, 7726, 7726, 7728, 7728, 7730, 7730, 7732, 7732, 7734, 7734,
   7736, 7736, 7738, 7738, 7740, 7740, 7742, 7742, 7744, 7744, 7746,
   7746, 7748, 7748, 7750, 7750, 7752, 7752, 7754, 7754, 7756, 7756,
   7758, 7758, 7760, 7760, 7762, 7762, 7764, 7764, 7766, 7766, 7768,
   7768, 7770, 7770, 7772, 7772, 7774, 7774, 7776, 7776, 7778, 7778,
   7780, 7780, 7782, 7782, 7784, 7784, 7786, 7786, 7788, 7788, 7790,
   7790, 7792, 7792, 7794, 7794, 7796, 7796, 7798, 7798, 7800, 7800,
   7802, 7802, 7804, 7804, 7806, 7806, 7808, 7808, 7810, 7810, 7812,
   7812, 7814, 7814, 7816, 7816, 7818, 7818, 7820, 7820, 7822, 7822,
   7824, 7824, 7826, 7826, 7828, 7828, 7838, 7838, 7840, 7840, 7842,
   7842, 7844, 7844, 7846, 7846, 7848, 7848, 7850, 7850, 7852, 7852,
   7854, 7854, 7856, 7856, 7858, 7858, 7860, 7860, 7862, 7862, 7864,
   7864, 7866, 7866, 7868, 7868, 7870, 7870, 7872, 7872, 7874, 7874,
   7876, 7876, 7878, 7878, 7880, 7880, 7882, 7882, 7884, 7884, 7886,
   7886, 7888, 7888, 7890, 7890, 7892, 7892, 7894, 7894, 7896, 7896,
   7898, 7898, 7900, 7900, 7902, 7902, 7904, 7904, 7906, 7906, 7908,
   7908, 7910, 7910, 7912, 7912, 7914, 7914, 7916, 7916, 7918, 7918,
   7920, 7920, 7922, 7922, 7924, 7924, 7926, 7926, 7928, 7928, 7930,
   7930, 7932, 7932, 7934, 7934, 7944, 7951, 7960, 7965, 7976, 7983,
   7992, 7999, 8008, 8013, 8025, 8025, 8027, 8027, 8029, 8029, 8031,
   8031, 8040, 8047, 8120, 8123, 8136, 8139, 8152, 8155, 8168, 8172,
   8184, 8187, 8450, 8450, 8455, 8455, 8459, 8461, 8464, 8466, 8469,
   8469, 8473, 8477, 8484, 8484, 8486, 8486, 8488, 8488, 8490, 8493,
   8496, 8499, 8510, 8511, 8517, 8517, 8544, 8559, 8579, 8579, 9398,
   9423, 11264, 11311, 11360, 11360, 11362, 11364, 11367, 11367,
   11369, 11369, 11371, 11371, 11373, 11376, 11378, 11378, 11381,
   11381, 11390, 11392, 11394, 11394, 11396, 11396, 11398, 11398,
   11400, 11400, 11402, 11402, 11404, 11404, 11406, 11406, 11408,
   11408, 11410, 11410, 11412, 11412, 11414, 11414, 11416, 11416,
   11418, 11418, 11420, 11420, 11422, 11422, 11424, 11424, 11426,
   11426, 11428, 11428, 11430, 11430, 11432, 11432, 11434, 11434,
   11436, 11436, 11438, 11438, 11440, 11440, 11442, 11442, 11444,
   11444, 11446, 11446, 11448, 11448, 11450, 11450, 11452, 11452,
   11454, 11454, 11456, 11456, 11458, 11458, 11460, 11460, 11462,
   11462, 11464, 11464, 11466, 11466, 11468, 11468, 11470, 11470,
   11472, 11472, 11474, 11474, 11476, 11476, 11478, 11478, 11480,
   11480, 11482, 11482, 11484, 11484, 11486, 11486, 11488, 11488,
   11490, 11490, 11499, 11499, 11501, 11501, 11506, 11506, 42560,
   42560, 42562, 42562, 42564, 42564, 42566, 42566, 42568, 42568,
   42570, 42570, 42572, 42572, 42574, 42574, 42576, 42576, 42578,
   42578, 42580, 42580, 42582, 42582, 42584, 42584, 42586, 42586,
   42588, 42588, 42590, 42590, 42592, 42592, 42594, 42594, 42596,
   42596, 42598, 42598, 42600, 42600, 42602, 42602, 42604, 42604,
   42624, 42624, 42626, 42626, 42628, 42628, 42630, 42630, 42632,
   42632, 42634, 42634, 42636, 42636, 42638, 42638, 42640, 42640,
   42642, 42642, 42644, 42644, 42646, 42646, 42648, 42648, 42650,
   42650, 42786, 42786, 42788, 42788, 42790, 42790, 42792, 42792,
   42794, 42794, 42796, 42796, 42798, 42798, 42802, 42802, 42804,
   42804, 42806, 42806, 42808, 42808, 42810, 42810, 42812, 42812,
   42814, 42814, 42816, 42816, 42818, 42818, 42820, 42820, 42822,
   42822, 42824, 42824, 42826, 42826, 42828, 42828, 42830, 42830,
   42832, 42832, 42834, 42834, 42836, 42836, 42838, 42838, 42840,
   42840, 42842, 42842, 42844, 42844, 42846, 42846, 42848, 42848,
   42850, 42850, 42852, 42852, 42854, 42854, 42856, 42856, 42858,
   42858, 42860, 42860, 42862, 42862, 42873, 42873, 42875, 42875,
   42877, 42878, 42880, 42880, 42882, 42882, 42884, 42884, 42886,
   42886, 42891, 42891, 42893, 42893, 42896, 42896, 42898, 42898,
   42902, 42902, 42904, 42904, 42906, 42906, 42908, 42908, 42910,
   42910, 42912, 42912, 42914, 42914, 42916, 42916, 42918, 42918,
   42920, 42920, 42922, 42926, 42928, 42932, 42934, 42934, 42936,
   42936, 42938, 42938, 42940, 42940, 42942, 42942, 42944, 42944,
   42946, 42946, 42948, 42951, 42953, 42953, 42960, 42960, 42966,
   42966, 42968, 42968, 42997, 42997, 65313, 65338, 66560, 66599,
   66736, 66771, 66928, 66938, 66940, 66954, 66956, 66962, 66964,
   66965, 68736, 68786, 71840, 71871, 93760, 93791, 119808, 119833,
   119860, 119885, 119912, 119937, 119964, 119964, 119966, 119967,
   119970, 119970, 119973, 119974, 119977, 119980, 119982, 119989,
   120016, 120041, 120068, 120069, 120071, 120074, 120077, 120084,
   120086, 120092, 120120, 120121, 120123, 120126, 120128, 120132,
   120134, 120134, 120138, 120144, 120172, 120197, 120224, 120249,
   120276, 120301, 120328, 120353, 120380, 120405, 120432, 120457,
   120488, 120512, 120546, 120570, 120604, 120628, 120662, 120686,
   120720, 120744, 120778, 120778, 125184, 125217, 127280, 127305,
   127312, 127337, 127344, 127369>>

\* the characters c with c.isalnum()
AlnumChars ==
  << 48, 57, 65, 90, 97, 122, 170, 170, 178, 179, 181, 181, 185, 186,
   188, 190, 192, 214, 216, 246, 248, 705, 710, 721, 736, 740, 748,
   748, 750, 750, 880, 884, 886, 887, 890, 893, 895, 895, 902, 902,
   904, 906, 908, 908, 910, 929, 931, 1013, 1015, 1153, 1162, 1327,
   1329, 1366, 1369, 1369, 1376, 1416, 1488, 1514, 1519, 1522, 1568,
   1610, 1632, 1641, 1646, 1647, 1649, 1747, 1749, 1749, 1765, 1766,
   1774, 1788, 1791, 1791, 1808, 1808, 1810, 1839, 1869, 1957, 1969,
   1969, 1984, 2026, 2036, 2037, 2042, 2042, 2048, 2069, 2074, 2074,
   2084, 2084, 2088, 2088, 2112, 2136, 2144, 2154, 2160, 2183, 2185,
   2190, 2208, 2249, 2308, 2361, 2365, 2365, 2384, 2384, 2392, 2401,
   2406, 2415, 2417, 2432, 2437, 2444, 2447, 2448, 2451, 2472, 2474,
   2480, 2482, 2482, 2486, 2489, 2493, 2493, 2510, 2510, 2524, 2525,
   2527, 2529, 2534, 2545, 2548, 2553, 2556, 2556, 2565, 2570, 2575,
   2576, 2579, 2600, 2602, 2608, 2610, 2611, 2613, 2614, 2616, 2617,
   2649, 2652, 2654, 2654, 2662, 2671, 2674, 2676, 2693, 2701, 2703,
   2705, 2707, 2728, 2730, 2736, 2738, 2739, 2741, 2745, 2749, 2749,
   2768, 2768, 2784, 2785, 2790, 2799, 2809, 2809, 2821, 2828, 2831,
   2832, 2835, 2856, 2858, 2864, 2866, 2867, 2869, 2873, 2877, 2877,
   2908, 2909, 2911, 2913, 2918, 2927, 2929, 2935, 2947, 2947, 2949,
   2954, 2958, 2960, 2962, 2965, 2969, 2970, 2972, 2972, 2974, 2975,
   2979, 2980, 2984, 2986, 2990, 3001, 3024, 3024, 3046, 3058, 3077,
   3084, 3086, 3088, 3090, 3112, 3114, 3129, 3133, 3133, 3160, 3162,
   3165, 3165, 3168, 3169, 3174, 3183, 3192, 3198, 3200, 3200, 3205,
   3212, 3214, 3216, 3218, 3240, 3242, 3251, 3253, 3257, 3261, 3261,
   3293, 3294, 3296, 3297, 3302, 3311, 3313, 3314, 3332, 3340, 3342,
   3344, 3346, 3386, 3389, 3389, 3406, 3406, 3412, 3414, 3416, 3425,
   3430, 3448, 3450, 3455, 3461, 3478, 3482, 3505, 3507, 3515, 3517,
   3517, 3520, 3526, 3558, 3567, 3585, 3632, 3634, 3635, 3648, 3654,
   3664, 3673, 3713, 3714, 3716, 3716, 3718, 3722, 3724, 3747, 3749,
   3749, 3751, 3760, 3762, 3763, 3773, 3773, 3776, 3780, 3782, 3782,
   3792, 3801, 3804, 3807, 3840, 3840, 3872, 3891, 3904, 3911, 3913,
   3948, 3976, 3980, 4096, 4138, 4159, 4169, 4176, 4181, 4186, 4189,
   4193, 4193, 4197, 4198, 4206, 4208, 4213, 4225, 4238, 4238, 4240,
   4249, 4256, 4293, 4295, 4295, 4301, 4301, 4304, 4346, 4348, 4680,
   4682, 4685, 4688, 4694, 4696, 4696, 4698, 4701, 4704, 4744, 4746,
   4749, 4752, 4784, 4786, 4789, 4792, 4798, 4800, 4800, 4802, 4805,
   4808, 4822, 4824, 4880, 4882, 4885, 4888, 4954, 4969, 4988, 4992,
   5007, 5024, 5109, 5112, 5117, 5121, 5740, 5743, 5759, 5761, 5786,
   5792, 5866, 5870, 5880, 5888, 5905, 5919, 5937, 5952, 5969, 5984,
   5996, 5998, 6000, 6016, 6067, 6103, 6103, 6108, 6108, 6112, 6121,
   6128, 6137, 6160, 6169, 6176, 6264, 6272, 6276, 6279, 6312, 6314,
   6314, 6320, 6389, 6400, 6430, 6470, 6509, 6512, 6516, 6528, 6571,
   6576, 6601, 6608, 6618, 6656, 6678, 6688, 6740, 6784, 6793, 6800,
   6809, 6823, 6823, 6917, 6963, 6981, 6988, 6992, 7001, 7043, 7072,
   7086, 7141, 7168, 7203, 7232, 7241, 7245, 7293, 7296, 7304, 7312,
   7354, 7357, 7359, 7401, 7404, 7406, 7411, 7413, 7414, 7418, 7418,
   7424, 7615, 7680, 7957, 7960, 7965, 7968, 8005, 8008, 8013, 8016,
   8023, 8025, 8025, 8027, 8027, 8029, 8029, 8031, 8061, 8064, 8116,
   8118, 8124, 8126, 8126, 8130, 8132, 8134, 8140, 8144, 8147, 8150,
   8155, 8160, 8172, 8178, 8180, 8182, 8188, 8304, 8305, 8308, 8313,
   8319, 8329, 8336, 8348, 8450, 8450, 8455, 8455, 8458, 8467, 8469,
   8469, 8473, 8477, 8484, 8484, 8486, 8486, 8488, 8488, 8490, 8493,
   8495, 8505, 8508, 8511, 8517, 8521, 8526, 8526, 8528, 8585, 9312,
   9371, 9450, 9471, 10102, 10131, 11264, 11492, 11499, 11502, 11506,
   11507, 11517, 11517, 11520, 11557, 11559, 11559, 11565, 11565,
   11568, 11623, 11631, 11631, 11648, 11670, 11680, 11686, 11688,
   11694, 11696, 11702, 11704, 11710, 11712, 11718, 11720, 11726,
   11728, 11734, 11736, 11742, 11823, 11823, 12293, 12295, 12321,
   12329, 12337, 12341, 12344, 12348, 12353, 12438, 12445, 12447,
   12449, 12538, 12540, 12543, 12549, 12591, 12593, 12686, 12690,
   12693, 12704, 12735, 12784, 12799, 12832, 12841, 12872, 12879,
   12881, 12895, 12928, 12937, 12977, 12991, 13312, 19903, 19968,
   42124, 42192, 42237, 42240, 42508, 42512, 42539, 42560, 42606,
   42623, 42653, 42656, 42735, 42775, 42783, 42786, 42888, 42891,
   42954, 42960, 42961, 42963, 42963, 42965, 42969, 42994, 43009,
   43011, 43013, 43015, 43018, 43020, 43042, 43056, 43061, 43072,
   43123, 43138, 43187, 43216, 43225, 43250, 43255, 43259, 43259,
   43261, 43262, 43264, 43301, 43312, 43334, 43360, 43388, 43396,
   43442, 43471, 43481, 43488, 43492, 43494, 43518, 43520, 43560,
   43584, 43586, 43588, 43595, 43600, 43609, 43616, 43638, 43642,
   43642, 43646, 43695, 43697, 43697, 43701, 43702, 43705, 43709,
   43712, 43712, 43714, 43714, 43739, 43741, 43744, 43754, 43762,
   43764, 43777, 43782, 43785, 43790, 43793, 43798, 43808, 43814,
   43816, 43822, 43824, 43866, 43868, 43881, 43888, 44002, 44016,
   44025, 44032, 55203, 55216, 55238, 55243, 55291, 63744, 64109,
   64112, 64217, 64256, 64262, 64275, 64279, 64285, 64285, 64287,
   64296, 64298, 64310, 64312, 64316, 64318, 64318, 64320, 64321,
   64323, 64324, 64326, 64433, 64467, 64829, 64848, 64911, 64914,
   64967, 65008, 65019, 65136, 65140, 65142, 65276, 65296, 65305,
   65313, 65338, 65345, 65370, 65382, 65470, 65474, 65479, 65482,
   65487, 65490, 65495, 65498, 65500, 65536, 65547, 65549, 65574,
   65576, 65594, 65596, 65597, 65599, 65613, 65616, 65629, 65664,
   65786, 65799, 65843, 65856, 65912, 65930, 65931, 66176, 66204,
   66208, 66256, 66273, 66299, 66304, 66339, 66349, 66378, 66384,
   66421, 66432, 66461, 66464, 66499, 66504, 66511, 66513, 66517,
   66560, 66717, 66720, 66729, 66736, 66771, 66776, 66811, 66816,
   66855, 66864, 66915, 66928, 66938, 66940, 66954, 66956, 66962,
   66964, 66965, 66967, 66977, 66979, 66993, 66995, 67001, 67003,
   67004, 67072, 67382, 67392, 67413, 67424, 67431, 67456, 67461,
   67463, 67504, 67506, 67514, 67584, 67589, 67592, 67592, 67594,
   67637, 67639, 67640, 67644, 67644, 67647, 67669, 67672, 67702,
   67705, 67742, 67751, 67759, 67808, 67826, 67828, 67829, 67835,
   67867, 67872, 67897, 67968, 68023, 68028, 68047, 68050, 68096,
   68112, 68115, 68117, 68119, 68121, 68149, 68160, 68168, 68192,
   68222, 68224, 68255, 68288, 68295, 68297, 68324, 68331, 68335,
   68352, 68405, 68416, 68437, 68440, 68466, 68472, 68497, 68521,
   68527, 68608, 68680, 68736, 68786, 68800, 68850, 68858, 68899,
   68912, 68921, 69216, 69246, 69248, 69289, 69296, 69297, 69376,
   69415, 69424, 69445, 69457, 69460, 69488, 69505, 69552, 69579,
   69600, 69622, 69635, 69687, 69714, 69743, 69745, 69746, 69749,
   69749, 69763, 69807, 69840, 69864, 69872, 69881, 69891, 69926,
   69942, 69951, 69956, 69956, 69959, 69959, 69968, 70002, 70006,
   70006, 70019, 70066, 70081, 70084, 70096, 70106, 70108, 70108,
   70113, 70132, 70144, 70161, 70163, 70187, 70272, 70278, 70280,
   70280, 70282, 70285, 70287, 70301, 70303, 70312, 70320, 70366,
   70384, 70393, 70405, 70412, 70415, 70416, 70419, 70440, 70442,
   70448, 70450, 70451, 70453, 70457, 70461, 70461, 70480, 70480,
   70493, 70497, 70656, 70708, 70727, 70730, 70736, 70745, 70751,
   70753, 70784, 70831, 70852, 70853, 70855, 70855, 70864, 70873,
   71040, 71086, 71128, 71131, 71168, 71215, 71236, 71236, 71248,
   71257, 71296, 71338, 71352, 71352, 71360, 71369, 71424, 71450,
   71472, 71483, 71488, 71494, 71680, 71723, 71840, 71922, 71935,
   71942, 71945, 71945, 71948, 71955, 71957, 71958, 71960, 71983,
   71999, 71999, 72001, 72001, 72016, 72025, 72096, 72103, 72106,
   72144, 72161, 72161, 72163, 72163, 72192, 72192, 72203, 72242,
   72250, 72250, 72272, 72272, 72284, 72329, 72349, 72349, 72368,
   72440, 72704, 72712, 72714, 72750, 72768, 72768, 72784, 72812,
   72818, 72847, 72960, 72966, 72968, 72969, 72971, 73008, 73030,
   73030, 73040, 73049, 73056, 73061, 73063, 73064, 73066, 73097,
   73112, 73112, 73120, 73129, 73440, 73458, 73648, 73648, 73664,
   73684, 73728, 74649, 74752, 74862, 74880, 75075, 77712, 77808,
   77824, 78894, 82944, 83526, 92160, 92728, 92736, 92766, 92768,
   92777, 92784, 92862, 92864, 92873, 92880, 92909, 92928, 92975,
   92992, 92995, 93008, 93017, 93019, 93025, 93027, 93047, 93053,
   93071, 93760, 93846, 93952, 94026, 94032, 94032, 94099, 94111,
   94176, 94177, 94179, 94179, 94208, 100343, 100352, 101589, 101632,
   101640, 110576, 110579, 110581, 110587, 110589, 110590, 110592,
   110882, 110928, 110930, 110948, 110951, 110960, 111355, 113664,
   113770, 113776, 113788, 113792, 113800, 113808, 113817, 119520,
   119539, 119648, 119672, 119808, 119892, 119894, 119964, 119966,
   119967, 119970, 119970, 119973, 119974, 119977, 119980, 119982,
   119993, 119995, 119995, 119997, 120003, 120005, 120069, 120071,
   120074, 120077, 120084, 120086, 120092, 120094, 120121, 120123,
   120126, 120128, 120132, 120134, 120134, 120138, 120144, 120146,
   120485, 120488, 120512, 120514, 120538, 120540, 120570, 120572,
   120596, 120598, 120628, 120630, 120654, 120656, 120686, 120688,
   120712, 120714, 120744, 120746, 120770, 120772, 120779, 120782,
   120831, 122624, 122654, 123136, 123180, 123191, 123197, 123200,
   123209, 123214, 123214, 123536, 123565, 123584, 123627, 123632,
   123641, 124896, 124902, 124904, 124907, 124909, 124910, 124912,
   124926, 124928, 125124, 125127, 125135, 125184, 125251, 125259,
   125259, 125264, 125273, 126065, 126123, 126125, 126127, 126129,
   126132, 126209, 126253, 126255, 126269, 126464, 126467, 126469,
   126495, 126497, 126498, 126500, 126500, 126503, 126503, 126505,
   126514, 126516, 126519, 126521, 126521, 126523, 126523, 126530,
   126530, 126535, 126535, 126537, 126537, 126539, 126539, 126541,
   126543, 126545, 126546, 126548, 126548, 126551, 126551, 126553,
   126553, 126555, 126555, 126557, 126557, 126559, 126559, 126561,
   126562, 126564, 126564, 126567, 126570, 126572, 126578, 126580,
   126583, 126585, 126588, 126590, 126590, 126592, 126601, 126603,
   126619, 126625, 126627, 126629, 126633, 126635, 126651, 127232,
   127244, 130032, 130041, 131072, 173791, 173824, 177976, 177984,
   178205, 178208, 183969, 183984, 191456, 194560, 195101, 196608,
   201546>>

\* the characters c.lower() changes into one other character: an entry
\* a, b, d sends each c of a..b to c + d
LowerTable ==
  << 65, 90, 32, 192, 214, 32, 216, 222, 32, 256, 256, 1, 258, 258, 1,
   260, 260, 1, 262, 262, 1, 264, 264, 1, 266, 266, 1, 268, 268, 1,
   270, 270, 1, 272, 272, 1, 274, 274, 1, 276, 276, 1, 278, 278, 1,
   280, 280, 1, 282, 282, 1, 284, 284, 1, 286, 286, 1, 288, 288, 1,
   290, 290, 1, 292, 292, 1, 294, 294, 1, 296, 296, 1, 298, 298, 1,
   300, 300, 1, 302, 302, 1, 306, 306, 1, 308, 308, 1, 310, 310, 1,
   313, 313, 1, 315, 315, 1, 317, 317, 1, 319, 319, 1, 321, 321, 1,
   323, 323, 1, 325, 325, 1, 327, 327, 1, 330, 330, 1, 332, 332, 1,
   334, 334, 1, 336, 336, 1, 338, 338, 1, 340, 340, 1, 342, 342, 1,
   344, 344, 1, 346, 346, 1, 348, 348, 1, 350, 350, 1, 352, 352, 1,
   354, 354, 1, 356, 356, 1, 358, 358, 1, 360, 360, 1, 362, 362, 1,
   364, 364, 1, 366, 366, 1, 368, 368, 1, 370, 370, 1, 372, 372, 1,
   374, 374, 1, 376, 376, -121, 377, 377, 1, 379, 379, 1, 381, 381, 1,
   385, 385, 210, 386, 386, 1, 388, 388, 1, 390, 390, 206, 391, 391,
   1, 393, 394, 205, 395, 395, 1, 398, 398, 79, 399, 399, 202, 400,
   400, 203, 401, 401, 1, 403, 403, 205, 404, 404, 207, 406, 406, 211,
   407, 407, 209, 408, 408, 1, 412, 412, 211, 413, 413, 213, 415, 415,
   214, 416, 416, 1, 418, 418, 1, 420, 420, 1, 422, 422, 218, 423,
   423, 1, 425, 425, 218, 428, 428, 1, 430, 430, 218, 431, 431, 1,
   433, 434, 217, 435, 435, 1, 437, 437, 1, 439, 439, 219, 440, 440,
   1, 444, 444, 1, 452, 452, 2, 453, 453, 1, 455, 455, 2, 456, 456, 1,
   458, 458, 2, 459, 459, 1, 461, 461, 1, 463, 463, 1, 465, 465, 1,
   467, 467, 1, 469, 469, 1, 471, 471, 1, 473, 473, 1, 475, 475, 1,
   478, 478, 1, 480, 480, 1, 482, 482, 1, 484, 484, 1, 486, 486, 1,
   488, 488, 1, 490, 490, 1, 492, 492, 1, 494, 494, 1, 497, 497, 2,
   498, 498, 1, 500, 500, 1, 502, 502, -97, 503, 503, -56, 504, 504,
   1, 506, 506, 1, 508, 508, 1, 510, 510, 1, 512, 512, 1, 514, 514, 1,
   516, 516, 1, 518, 518, 1, 520, 520, 1, 522, 522, 1, 524, 524, 1,
   526, 526, 1, 528, 528, 1, 530, 530, 1, 532, 532, 1, 534, 534, 1,
   536, 536, 1, 538, 538, 1, 540, 540, 1, 542, 542, 1, 544, 544, -130,
   546, 546, 1, 548, 548, 1, 550, 550, 1, 552, 552, 1, 554, 554, 1,
   556, 556, 1, 558, 558, 1, 560, 560, 1, 562, 562, 1, 570, 570,
   10795, 571, 571, 1, 573, 573, -163, 574, 574, 10792, 577, 577, 1,
   579, 579, -195, 580, 580, 69, 581, 581, 71, 582, 582, 1, 584, 584,
   1, 586, 586, 1, 588, 588, 1, 590, 590, 1, 880, 880, 1, 882, 882, 1,
   886, 886, 1, 895, 895, 116, 902, 902, 38, 904, 906, 37, 908, 908,
   64, 910, 911, 63, 913, 929, 32, 931, 939, 32, 975, 975, 8, 984,
   984, 1, 986, 986, 1, 988, 988, 1, 990, 990, 1, 992, 992, 1, 994,
   994, 1, 996, 996, 1, 998, 998, 1, 1000, 1000, 1, 1002, 1002, 1,
   1004, 1004, 1, 1006, 1006, 1, 1012, 1012, -60, 1015, 1015, 1, 1017,
   1017, -7, 1018, 1018, 1, 1021, 1023, -130, 1024, 1039, 80, 1040,
   1071, 32, 1120, 1120, 1, 1122, 1122, 1, 1124, 1124, 1, 1126, 1126,
   1, 1128, 1128, 1, 1130, 1130, 1, 1132, 1132, 1, 1134, 1134, 1,
   1136, 1136, 1, 1138, 1138, 1, 1140, 1140, 1, 1142, 1142, 1, 1144,
   1144, 1, 1146, 1146, 1, 1148, 1148, 1, 1150, 1150, 1, 1152, 1152,
   1, 1162, 1162, 1, 1164, 1164, 1, 1166, 1166, 1, 1168, 1168, 1,
   1170, 1170, 1, 1172, 1172, 1, 1174, 1174, 1, 1176, 1176, 1, 1178,
   1178, 1, 1180, 1180, 1, 1182, 1182, 1, 1184, 1184, 1, 1186, 1186,
   1, 1188, 1188, 1, 1190, 1190, 1, 1192, 1192, 1, 1194, 1194, 1,
   1196, 1196, 1, 1198, 1198, 1, 1200, 1200, 1, 1202, 1202, 1, 1204,
   1204, 1, 1206, 1206, 1, 1208, 1208, 1, 1210, 1210, 1, 1212, 1212,
   1, 1214, 1214, 1, 1216, 1216, 15, 1217, 1217, 1, 1219, 1219, 1,
   1221, 1221, 1, 1223, 1223, 1, 1225, 1225, 1, 1227, 1227, 1, 1229,
   1229, 1, 1232, 1232, 1, 1234, 1234, 1, 1236, 1236, 1, 1238, 1238,
   1, 1240, 1240, 1, 1242, 1242, 1, 1244, 1244, 1, 1246, 1246, 1,
   1248, 1248, 1, 1250, 1250, 1, 1252, 1252, 1, 1254, 1254, 1, 1256,
   1256, 1, 1258, 1258, 1, 1260, 1260, 1, 1262, 1262, 1, 1264, 1264,
   1, 1266, 1266, 1, 1268, 1268, 1, 1270, 1270, 1, 1272, 1272, 1,
   1274, 1274, 1, 1276, 1276, 1, 1278, 1278, 1, 1280, 1280, 1, 1282,
   1282, 1, 1284, 1284, 1, 1286, 1286, 1, 1288, 1288, 1, 1290, 1290,
   1, 1292, 1292, 1, 1294, 1294, 1, 1296, 1296, 1, 1298, 1298, 1,
   1300, 1300, 1, 1302, 1302, 1, 1304, 1304, 1, 1306, 1306, 1, 1308,
   1308, 1, 1310, 1310, 1, 1312, 1312, 1, 1314, 1314, 1, 1316, 1316,
   1, 1318, 1318, 1, 1320, 1320, 1, 1322, 1322, 1, 1324, 1324, 1,
   1326, 1326, 1, 1329, 1366, 48, 4256, 4293, 7264, 4295, 4295, 7264,
   4301, 4301, 7264, 5024, 5103, 38864, 5104, 5109, 8, 7312, 7354,
   -3008, 7357, 7359, -3008, 7680, 7680, 1, 7682, 7682, 1, 7684, 7684,
   1, 7686, 7686, 1, 7688, 7688, 1, 7690, 7690, 1, 7692, 7692, 1,
   7694, 7694, 1, 7696, 7696, 1, 7698, 7698, 1, 7700, 7700, 1, 7702,
   7702, 1, 7704, 7704, 1, 7706, 7706, 1, 7708, 7708, 1, 7710, 7710,
   1, 7712, 7712, 1, 7714, 7714, 1, 7716, 7716, 1, 7718, 7718, 1,
   7720, 7720, 1, 7722, 7722, 1, 7724, 7724, 1, 7726, 7726, 1, 7728,
   7728, 1, 7730, 7730, 1, 7732, 7732, 1, 7734, 7734, 1, 7736, 7736,
   1, 7738, 7738, 1, 7740, 7740, 1, 7742, 7742, 1, 7744, 7744, 1,
   7746, 7746, 1, 7748, 7748, 1, 7750, 7750, 1, 7752, 7752, 1, 7754,
   7754, 1, 7756, 7756, 1, 7758, 7758, 1, 7760, 7760, 1, 7762, 7762,
   1, 7764, 7764, 1, 7766, 7766, 1, 7768, 7768, 1, 7770, 7770, 1,
   7772, 7772, 1, 7774, 7774, 1, 7776, 7776, 1, 7778, 7778, 1, 7780,
   7780, 1, 7782, 7782, 1, 7784, 7784, 1, 7786, 7786, 1, 7788, 7788,
   1, 7790, 7790, 1, 7792, 7792, 1, 7794, 7794, 1, 7796, 7796, 1,
   7798, 7798, 1, 7800, 7800, 1, 7802, 7802, 1, 7804, 7804, 1, 7806,
   7806, 1, 7808, 7808, 1, 7810, 7810, 1, 7812, 7812, 1, 7814, 7814,
   1, 7816, 7816, 1, 7818, 7818, 1, 7820, 7820, 1, 7822, 7822, 1,
   7824, 7824, 1, 7826, 7826, 1, 7828, 7828, 1, 7838, 7838, -7615,
   7840, 7840, 1, 7842, 7842, 1, 7844, 7844, 1, 7846, 7846, 1, 7848,
   7848, 1, 7850, 7850, 1, 7852, 7852, 1, 7854, 7854, 1, 7856, 7856,
   1, 7858, 7858, 1, 7860, 7860, 1, 7862, 7862, 1, 7864, 7864, 1,
   7866, 7866, 1, 7868, 7868, 1, 7870, 7870, 1, 7872, 7872, 1, 7874,
   7874, 1, 7876, 7876, 1, 7878, 7878, 1, 7880, 7880, 1, 7882, 7882,
   1, 7884, 7884, 1, 7886, 7886, 1, 7888, 7888, 1, 7890, 7890, 1,
   7892, 7892, 1, 7894, 7894, 1, 7896, 7896, 1, 7898, 7898, 1, 7900,
   7900, 1, 7902, 7902, 1, 7904, 7904, 1, 7906, 7906, 1, 7908, 7908,
   1, 7910, 7910, 1, 7912, 7912, 1, 7914, 7914, 1, 7916, 7916, 1,
   7918, 7918, 1, 7920, 7920, 1, 7922, 7922, 1, 7924, 7924, 1, 7926,
   7926, 1, 7928, 7928, 1, 7930, 7930, 1, 7932, 7932, 1, 7934, 7934,
   1, 7944, 7951, -8, 7960, 7965, -8, 7976, 7983, -8, 7992, 7999, -8,
   8008, 8013, -8, 8025, 8025, -8, 8027, 8027, -8, 8029, 8029, -8,
   8031, 8031, -8, 8040, 8047, -8, 8072, 8079, -8, 8088, 8095, -8,
   8104, 8111, -8, 8120, 8121, -8, 8122, 8123, -74, 8124, 8124, -9,
   8136, 8139, -86, 8140, 8140, -9, 8152, 8153, -8, 8154, 8155, -100,
   8168, 8169, -8, 8170, 8171, -112, 8172, 8172, -7, 8184, 8185, -128,
   8186, 8187, -126, 8188, 8188, -9, 8486, 8486, -7517, 8490, 8490,
   -8383, 8491, 8491, -8262, 8498, 8498, 28, 8544, 8559, 16, 8579,
   8579, 1, 9398, 9423, 26, 11264, 11311, 48, 11360, 11360, 1, 11362,
   11362, -10743, 11363, 11363, -3814, 11364, 11364, -10727, 11367,
   11367, 1, 11369, 11369, 1, 11371, 11371, 1, 11373, 11373, -10780,
   11374, 11374, -10749, 11375, 11375, -10783, 11376, 11376, -10782,
   11378, 11378, 1, 11381, 11381, 1, 11390, 11391, -10815, 11392,
   11392, 1, 11394, 11394, 1, 11396, 11396, 1, 11398, 11398, 1, 11400,
   11400, 1, 11402, 11402, 1, 11404, 11404, 1, 11406, 11406, 1, 11408,
   11408, 1, 11410, 11410, 1, 11412, 11412, 1, 11414, 11414, 1, 11416,
   11416, 1, 11418, 11418, 1, 11420, 11420, 1, 11422, 11422, 1, 11424,
   11424, 1, 11426, 11426, 1, 11428, 11428, 1, 11430, 11430, 1, 11432,
   11432, 1, 11434, 11434, 1, 11436, 11436, 1, 11438, 11438, 1, 11440,
   11440, 1, 11442, 11442, 1, 11444, 11444, 1, 11446, 11446, 1, 11448,
   11448, 1, 11450, 11450, 1, 11452, 11452, 1, 11454, 11454, 1, 11456,
   11456, 1, 11458, 11458, 1, 11460, 11460, 1, 11462, 11462, 1, 11464,
   11464, 1, 11466, 11466, 1, 11468, 11468, 1, 11470, 11470, 1, 11472,
   11472, 1, 11474, 11474, 1, 11476, 11476, 1, 11478, 11478, 1, 11480,
   11480, 1, 11482, 11482, 1, 11484, 11484, 1, 11486, 11486, 1, 11488,
   11488, 1, 11490, 11490, 1, 11499, 11499, 1, 11501, 11501, 1, 11506,
   11506, 1, 42560, 42560, 1, 42562, 42562, 1, 42564, 42564, 1, 42566,
   42566, 1, 42568, 42568, 1, 42570, 42570, 1, 42572, 42572, 1, 42574,
   42574, 1, 42576, 42576, 1, 42578, 42578, 1, 42580, 42580, 1, 42582,
   42582, 1, 42584, 42584, 1, 42586, 42586, 1, 42588, 42588, 1, 42590,
   42590, 1, 42592, 42592, 1, 42594, 42594, 1, 42596, 42596, 1, 42598,
   42598, 1, 42600, 42600, 1, 42602, 42602, 1, 42604, 42604, 1, 42624,
   42624, 1, 42626, 42626, 1, 42628, 42628, 1, 42630, 42630, 1, 42632,
   42632, 1, 42634, 42634, 1, 42636, 42636, 1, 42638, 42638, 1, 42640,
   42640, 1, 42642, 42642, 1, 42644, 42644, 1, 42646, 42646, 1, 42648,
   42648, 1, 42650, 42650, 1, 42786, 42786, 1, 42788, 42788, 1, 42790,
   42790, 1, 42792, 42792, 1, 42794, 42794, 1, 42796, 42796, 1, 42798,
   42798, 1, 42802, 42802, 1, 42804, 42804, 1, 42806, 42806, 1, 42808,
   42808, 1, 42810, 42810, 1, 42812, 42812, 1, 42814, 42814, 1, 42816,
   42816, 1, 42818, 42818, 1, 42820, 42820, 1, 42822, 42822, 1, 42824,
   42824, 1, 42826, 42826, 1, 42828, 42828, 1, 42830, 42830, 1, 42832,
   42832, 1, 42834, 42834, 1, 42836, 42836, 1, 42838, 42838, 1, 42840,
   42840, 1, 42842, 42842, 1, 42844, 42844, 1, 42846, 42846, 1, 42848,
   42848, 1, 42850, 42850, 1, 42852, 42852, 1, 42854, 42854, 1, 42856,
   42856, 1, 42858, 42858, 1, 42860, 42860, 1, 42862, 42862, 1, 42873,
   42873, 1, 42875, 42875, 1, 42877, 42877, -35332, 42878, 42878, 1,
   42880, 42880, 1, 42882, 42882, 1, 42884, 42884, 1, 42886, 42886, 1,
   42891, 42891, 1, 42893, 42893, -42280, 42896, 42896, 1, 42898,
   42898, 1, 42902, 42902, 1, 42904, 42904, 1, 42906, 42906, 1, 42908,
   42908, 1, 42910, 42910, 1, 42912, 42912, 1, 42914, 42914, 1, 42916,
   42916, 1, 42918, 42918, 1, 42920, 42920, 1, 42922, 42922, -42308,
   42923, 42923, -42319, 42924, 42924, -42315, 42925, 42925, -42305,
   42926, 42926, -42308, 42928, 42928, -42258, 42929, 42929, -42282,
   42930, 42930, -42261, 42931, 42931, 928, 42932, 42932, 1, 42934,
   42934, 1, 42936, 42936, 1, 42938, 42938, 1, 42940, 42940, 1, 42942,
   42942, 1, 42944, 42944, 1, 42946, 42946, 1, 42948, 42948, -48,
   42949, 42949, -42307, 42950, 42950, -35384, 42951, 42951, 1, 42953,
   42953, 1, 42960, 42960, 1, 42966, 42966, 1, 42968, 42968, 1, 42997,
   42997, 1, 65313, 65338, 32, 66560, 66599, 40, 66736, 66771, 40,
   66928, 66938, 39, 66940, 66954, 39, 66956, 66962, 39, 66964, 66965,
   39, 68736, 68786, 64, 71840, 71871, 32, 93760, 93791, 32, 125184,
   125217, 34>>

\* the case-ignorable characters, which str.lower() skips around a
\* capital sigma
CaseIgnorable ==
  << 39, 39, 46, 46, 58, 58, 94, 94, 96, 96, 168, 168, 173, 173, 175,
   175, 180, 180, 183, 184, 688, 879, 884, 885, 890, 890, 900, 901,
   903, 903, 1155, 1161, 1369, 1369, 1375, 1375, 1425, 1469, 1471,
   1471, 1473, 1474, 1476, 1477, 1479, 1479, 1524, 1524, 1536, 1541,
   1552, 1562, 1564, 1564, 1600, 1600, 1611, 1631, 1648, 1648, 1750,
   1757, 1759, 1768, 1770, 1773, 1807, 1807, 1809, 1809, 1840, 1866,
   1958, 1968, 2027, 2037, 2042, 2042, 2045, 2045, 2070, 2093, 2137,
   2139, 2184, 2184, 2192, 2193, 2200, 2207, 2249, 2306, 2362, 2362,
   2364, 2364, 2369, 2376, 2381, 2381, 2385, 2391, 2402, 2403, 2417,
   2417, 2433, 2433, 2492, 2492, 2497, 2500, 2509, 2509, 2530, 2531,
   2558, 2558, 2561, 2562, 2620, 2620, 2625, 2626, 2631, 2632, 2635,
   2637, 2641, 2641, 2672, 2673, 2677, 2677, 2689, 2690, 2748, 2748,
   2753, 2757, 2759, 2760, 2765, 2765, 2786, 2787, 2810, 2815, 2817,
   2817, 2876, 2876, 2879, 2879, 2881, 2884, 2893, 2893, 2901, 2902,
   2914, 2915, 2946, 2946, 3008, 3008, 3021, 3021, 3072, 3072, 3076,
   3076, 3132, 3132, 3134, 3136, 3142, 3144, 3146, 3149, 3157, 3158,
   3170, 3171, 3201, 3201, 3260, 3260, 3263, 3263, 3270, 3270, 3276,
   3277, 3298, 3299, 3328, 3329, 3387, 3388, 3393, 3396, 3405, 3405,
   3426, 3427, 3457, 3457, 3530, 3530, 3538, 3540, 3542, 3542, 3633,
   3633, 3636, 3642, 3654, 3662, 3761, 3761, 3764, 3772, 3782, 3782,
   3784, 3789, 3864, 3865, 3893, 3893, 3895, 3895, 3897, 3897, 3953,
   3966, 3968, 3972, 3974, 3975, 3981, 3991, 3993, 4028, 4038, 4038,
   4141, 4144, 4146, 4151, 4153, 4154, 4157, 4158, 4184, 4185, 4190,
   4192, 4209, 4212, 4226, 4226, 4229, 4230, 4237, 4237, 4253, 4253,
   4348, 4348, 4957, 4959, 5906, 5908, 5938, 5939, 5970, 5971, 6002,
   6003, 6068, 6069, 6071, 6077, 6086, 6086, 6089, 6099, 6103, 6103,
   6109, 6109, 6155, 6159, 6211, 6211, 6277, 6278, 6313, 6313, 6432,
   6434, 6439, 6440, 6450, 6450, 6457, 6459, 6679, 6680, 6683, 6683,
   6742, 6742, 6744, 6750, 6752, 6752, 6754, 6754, 6757, 6764, 6771,
   6780, 6783, 6783, 6823, 6823, 6832, 6862, 6912, 6915, 6964, 6964,
   6966, 6970, 6972, 6972, 6978, 6978, 7019, 7027, 7040, 7041, 7074,
   7077, 7080, 7081, 7083, 7085, 7142, 7142, 7144, 7145, 7149, 7149,
   7151, 7153, 7212, 7219, 7222, 7223, 7288, 7293, 7376, 7378, 7380,
   7392, 7394, 7400, 7405, 7405, 7412, 7412, 7416, 7417, 7468, 7530,
   7544, 7544, 7579, 7679, 8125, 8125, 8127, 8129, 8141, 8143, 8157,
   8159, 8173, 8175, 8189, 8190, 8203, 8207, 8216, 8217, 8228, 8228,
   8231, 8231, 8234, 8238, 8288, 8292, 8294, 8303, 8305, 8305, 8319,
   8319, 8336, 8348, 8400, 8432, 11388, 11389, 11503, 11505, 11631,
   11631, 11647, 11647, 11744, 11775, 11823, 11823, 12293, 12293,
   12330, 12333, 12337, 12341, 12347, 12347, 12441, 12446, 12540,
   12542, 40981, 40981, 42232, 42237, 42508, 42508, 42607, 42610,
   42612, 42621, 42623, 42623, 42652, 42655, 42736, 42737, 42752,
   42785, 42864, 42864, 42888, 42890, 42994, 42996, 43000, 43001,
   43010, 43010, 43014, 43014, 43019, 43019, 43045, 43046, 43052,
   43052, 43204, 43205, 43232, 43249, 43263, 43263, 43302, 43309,
   43335, 43345, 43392, 43394, 43443, 43443, 43446, 43449, 43452,
   43453, 43471, 43471, 43493, 43494, 43561, 43566, 43569, 43570,
   43573, 43574, 43587, 43587, 43596, 43596, 43632, 43632, 43644,
   43644, 43696, 43696, 43698, 43700, 43703, 43704, 43710, 43711,
   43713, 43713, 43741, 43741, 43756, 43757, 43763, 43764, 43766,
   43766, 43867, 43871, 43881, 43883, 44005, 44005, 44008, 44008,
   44013, 44013, 64286, 64286, 64434, 64450, 65024, 65039, 65043,
   65043, 65056, 65071, 65106, 65106, 65109, 65109, 65279, 65279,
   65287, 65287, 65294, 65294, 65306, 65306, 65342, 65342, 65344,
   65344, 65392, 65392, 65438, 65439, 65507, 65507, 65529, 65531,
   66045, 66045, 66272, 66272, 66422, 66426, 67456, 67461, 67463,
   67504, 67506, 67514, 68097, 68099, 68101, 68102, 68108, 68111,
   68152, 68154, 68159, 68159, 68325, 68326, 68900, 68903, 69291,
   69292, 69446, 69456, 69506, 69509, 69633, 69633, 69688, 69702,
   69744, 69744, 69747, 69748, 69759, 69761, 69811, 69814, 69817,
   69818, 69821, 69821, 69826, 69826, 69837, 69837, 69888, 69890,
   69927, 69931, 69933, 69940, 70003, 70003, 70016, 70017, 70070,
   70078, 70089, 70092, 70095, 70095, 70191, 70193, 70196, 70196,
   70198, 70199, 70206, 70206, 70367, 70367, 70371, 70378, 70400,
   70401, 70459, 70460, 70464, 70464, 70502, 70508, 70512, 70516,
   70712, 70719, 70722, 70724, 70726, 70726, 70750, 70750, 70835,
   70840, 70842, 70842, 70847, 70848, 70850, 70851, 71090, 71093,
   71100, 71101, 71103, 71104, 71132, 71133, 71219, 71226, 71229,
   71229, 71231, 71232, 71339, 71339, 71341, 71341, 71344, 71349,
   71351, 71351, 71453, 71455, 71458, 71461, 71463, 71467, 71727,
   71735, 71737, 71738, 71995, 71996, 71998, 71998, 72003, 72003,
   72148, 72151, 72154, 72155, 72160, 72160, 72193, 72202, 72243,
   72248, 72251, 72254, 72263, 72263, 72273, 72278, 72281, 72283,
   72330, 72342, 72344, 72345, 72752, 72758, 72760, 72765, 72767,
   72767, 72850, 72871, 72874, 72880, 72882, 72883, 72885, 72886,
   73009, 73014, 73018, 73018, 73020, 73021, 73023, 73029, 73031,
   73031, 73104, 73105, 73109, 73109, 73111, 73111, 73459, 73460,
   78896, 78904, 92912, 92916, 92976, 92982, 92992, 92995, 94031,
   94031, 94095, 94111, 94176, 94177, 94179, 94180, 110576, 110579,
   110581, 110587, 110589, 110590, 113821, 113822, 113824, 113827,
   118528, 118573, 118576, 118598, 119143, 119145, 119155, 119170,
   119173, 119179, 119210, 119213, 119362, 119364, 121344, 121398,
   121403, 121452, 121461, 121461, 121476, 121476, 121499, 121503,
   121505, 121519, 122880, 122886, 122888, 122904, 122907, 122913,
   122915, 122916, 122918, 122922, 123184, 123197, 123566, 123566,
   123628, 123631, 125136, 125142, 125252, 125259, 127995, 127999,
   917505, 917505, 917536, 917631, 917760, 917999>>

\* the cased characters among those that are not case-ignorable
Cased ==
  << 65, 90, 97, 122, 170, 170, 181, 181, 186, 186, 192, 214, 216, 246,
   248, 442, 444, 447, 452, 659, 661, 687, 880, 883, 886, 887, 891,
   893, 895, 895, 902, 902, 904, 906, 908, 908, 910, 929, 931, 1013,
   1015, 1153, 1162, 1327, 1329, 1366, 1376, 1416, 4256, 4293, 4295,
   4295, 4301, 4301, 4304, 4346, 4349, 4351, 5024, 5109, 5112, 5117,
   7296, 7304, 7312, 7354, 7357, 7359, 7424, 7467, 7531, 7543, 7545,
   7578, 7680, 7957, 7960, 7965, 7968, 8005, 8008, 8013, 8016, 8023,
   8025, 8025, 8027, 8027, 8029, 8029, 8031, 8061, 8064, 8116, 8118,
   8124, 8126, 8126, 8130, 8132, 8134, 8140, 8144, 8147, 8150, 8155,
   8160, 8172, 8178, 8180, 8182, 8188, 8450, 8450, 8455, 8455, 8458,
   8467, 8469, 8469, 8473, 8477, 8484, 8484, 8486, 8486, 8488, 8488,
   8490, 8493, 8495, 8500, 8505, 8505, 8508, 8511, 8517, 8521, 8526,
   8526, 8544, 8575, 8579, 8580, 9398, 9449, 11264, 11387, 11390,
   11492, 11499, 11502, 11506, 11507, 11520, 11557, 11559, 11559,
   11565, 11565, 42560, 42605, 42624, 42651, 42786, 42863, 42865,
   42887, 42891, 42894, 42896, 42954, 42960, 42961, 42963, 42963,
   42965, 42969, 42997, 42998, 43002, 43002, 43824, 43866, 43872,
   43880, 43888, 43967, 64256, 64262, 64275, 64279, 65313, 65338,
   65345, 65370, 66560, 66639, 66736, 66771, 66776, 66811, 66928,
   66938, 66940, 66954, 66956, 66962, 66964, 66965, 66967, 66977,
   66979, 66993, 66995, 67001, 67003, 67004, 68736, 68786, 68800,
   68850, 71840, 71903, 93760, 93823, 119808, 119892, 119894, 119964,
   119966, 119967, 119970, 119970, 119973, 119974, 119977, 119980,
   119982, 119993, 119995, 119995, 119997, 120003, 120005, 120069,
   120071, 120074, 120077, 120084, 120086, 120092, 120094, 120121,
   120123, 120126, 120128, 120132, 120134, 120134, 120138, 120144,
   120146, 120485, 120488, 120512, 120514, 120538, 120540, 120570,
   120572, 120596, 120598, 120628, 120630, 120654, 120656, 120686,
   120688, 120712, 120714, 120744, 120746, 120770, 120772, 120779,
   122624, 122633, 122635, 122654, 125184, 125251, 127280, 127305,
   127312, 127337, 127344, 127369>>

CapitalSigma ==
  931

SmallSigma ==
  963

FinalSigma ==
  962

\* U+0130, the one character c.lower() turns into two: U+0069 U+0307
CapitalIDotted ==
  304

\* c.isupper()
IsUpper(c) ==
  In(c, UpperLetters)

\* c.isalnum()
IsAlnum(c) ==
  In(c, AlnumChars)

\* c.lower() for a character other than U+0130
LowerChar(c) ==
  LET k == EntryOf(c, LowerTable, 3)
  IN  IF k <= Len(LowerTable) \div 3 /\ LowerTable[3 * k - 2] <= c
        THEN c + LowerTable[3 * k]
        ELSE c

\* s[p:] as a 1-based suffix starting at index p
From(s, p) ==
  SubSeq(s, p, Len(s))

\* first index q >= p at which the run of characters of S that starts at p
\* ends (Len(s) + 1 when the run reaches the end): a greedy S* from p
RunEnd(s, p, S) ==
  CHOOSE q \in p..(Len(s) + 1) :
    /\ (q = Len(s) + 1 \/ ~In(s[q], S))
    /\ \A r \in p..(q - 1) : In(s[r], S)

\* last index q <= p before which a run of characters of S that ends at p
\* starts, scanning backwards (0 when the run reaches the start)
RunStart(s, p, S) ==
  CHOOSE q \in 0..p :
    /\ (q = 0 \/ ~In(s[q], S))
    /\ \A r \in (q + 1)..p : In(s[r], S)

\* the capital sigma at index k is in final position: a cased character
\* comes before it and none comes after it, case-ignorable ones skipped
in_final_sigma(s, k) ==
  LET j == RunStart(s, k - 1, CaseIgnorable)
      m == RunEnd(s, k + 1, CaseIgnorable)
  IN  /\ j >= 1
      /\ In(s[j], Cased)
      /\ (m > Len(s) \/ ~In(s[m], Cased))

\* the characters s[k] becomes in s.lower()
LowerAt(s, k) ==
  IF s[k] = CapitalSigma
    THEN <<IF in_final_sigma(s, k) THEN FinalSigma ELSE SmallSigma>>
  ELSE IF s[k] = CapitalIDotted THEN <<105, 775>>
  ELSE <<LowerChar(s[k])>>

\* s.lower(): every character gives one or two characters, in two slots
\* of which the unused one holds -1
Lower(s) ==
  SelectSeq([n \in 1..(2 * Len(s)) |->
               Append(LowerAt(s, (n + 1) \div 2), -1)[2 - (n % 2)]],
            LAMBDA c : c # -1)

\* s.strip()
Strip(s) ==
  LET a == RunEnd(s, 1, Spaces)
      b == RunStart(s, Len(s), Spaces)
  IN  IF a > b THEN <<>> ELSE SubSeq(s, a, b)

\* s.startswith(prefix), also the match of a literal at index p
HasAt(s, p, lit) ==
  /\ p >= 1
  /\ p + Len(lit) - 1 <= Len(s)
  /\ \A k \in 1..Len(lit) : s[p + k - 1] = lit[k]

StartsWith(s, prefix) ==
  HasAt(s, 1, prefix)

\* sub in s
Contains(s, sub) ==
  \E p \in 1..(Len(s) + 1) : HasAt(s, p, sub)

\* s.isdigit()
IsDigitStr(s) ==
  /\ Len(s) > 0
  /\ \A k \in 1..Len(s) : In(s[k], DigitProperty)

\* re.match(r'^\d+$', s)
IsDigitRun(s) ==
  /\ Len(s) > 0
  /\ \A k \in 1..Len(s) : In(s[k], Digits)

\* the value int() gives the digit c
DigitVal(c) ==
  (c - Digits[2 * EntryOf(c, Digits, 2) - 1]) % 10

\* sys.int_info.default_max_str_digits: the longest string of digits int()
\* converts
MaxStrDigits ==
  4300

\* int(s) raises ValueError
to_int_raises(s) ==
  Len(s) > MaxStrDigits

\* int(s) for a string of digits
RECURSIVE ToInt(_)
ToInt(s) ==
  IF s = <<>> THEN 0
  ELSE ToInt(SubSeq(s, 1, Len(s) - 1)) * 10 + DigitVal(s[Len(s)])

\* pdf_text.split('\n')
RECURSIVE SplitLines(_)
SplitLines(s) ==
  LET q == RunEnd(s, 1, NotNewline)
  IN  IF q > Len(s) THEN <<s>>
      ELSE <<SubSeq(s, 1, q - 1)>> \o SplitLines(From(s, q + 1))

\* [line.strip() for line in pdf_text.split('\n') if line.strip()]
StrippedLines(text) ==
  LET raw == SplitLines(text)
      kept == SelectSeq(raw, LAMBDA l : Strip(l) # <<>>)
  IN  [k \in 1..Len(kept) |-> Strip(kept[k])]

(***************************************************************************)
(* The extractor's helpers                                                 *)
(***************************************************************************)

\* re.search(r'Page (\d+) of (\d+)', line): the leftmost index where the
\* pattern matches, 0 when there is none
PageMarkerMatchesAt(line, p) ==
  /\ HasAt(line, p, <<80, 97, 103, 101, 32>> (* 'Page ' *))
  /\ LET d == RunEnd(line, p + 5, Digits)
     IN  /\ d > p + 5
         /\ HasAt(line, d, <<32, 111, 102, 32>> (* ' of ' *))
         /\ d + 4 <= Len(line)
         /\ In(line[d + 4], Digits)

PageMarkerAt(line) ==
  IF \E p \in 1..Len(line) : PageMarkerMatchesAt(line, p)
    THEN CHOOSE p \in 1..Len(line) :
           /\ PageMarkerMatchesAt(line, p)
           /\ \A r \in 1..(p - 1) : ~PageMarkerMatchesAt(line, r)
    ELSE 0

\* page_match.group(1)
PageMarkerDigits(line) ==
  LET p == PageMarkerAt(line)
  IN  SubSeq(line, p + 5, RunEnd(line, p + 5, Digits) - 1)

\* int(page_match.group(1))
PageMarkerPage(line) ==
  ToInt(PageMarkerDigits(line))

\* _parse_page_info raises: int() refuses the page number of a marker
parse_page_info_raises(ls) ==
  \E k \in 1..Len(ls) :
    PageMarkerAt(ls[k]) # 0 /\ to_int_raises(PageMarkerDigits(ls[k]))

\* _parse_page_info: the page in effect at the first n lines
RECURSIVE PageAfter(_, _)
PageAfter(ls, n) ==
  IF n = 0 THEN 1
  ELSE IF PageMarkerAt(ls[n]) # 0 THEN PageMarkerPage(ls[n])
  ELSE PageAfter(ls, n - 1)

\* self.line_to_page once the loop has stored the first n lines, keyed by
\* 0-based line position
line_to_page_after(ls, n) ==
  [i \in 0..(n - 1) |-> PageAfter(ls, i + 1)]

\* self.line_to_page, at the return of _parse_page_info
parse_page_info(ls) ==
  line_to_page_after(ls, Len(ls))

\* the 1-based index of the line at which _parse_page_info raises
first_raising_marker(ls) ==
  CHOOSE k \in 1..Len(ls) :
    /\ PageMarkerAt(ls[k]) # 0 /\ to_int_raises(PageMarkerDigits(ls[k]))
    /\ \A r \in 1..(k - 1) :
         ~(PageMarkerAt(ls[r]) # 0 /\ to_int_raises(PageMarkerDigits(ls[r])))

\* _is_noise_line
is_noise_line(line) ==
  LET l == Lower(line)
  IN  \/ StartsWith(l, <<99, 111, 112, 121, 114, 105, 103, 104, 116>> (* 'copyright' *))                   \* ^copyright\s*[\xa9]?
      \/ /\ StartsWith(l, <<118, 101, 114, 115, 105, 111, 110>> (* 'version' *))                  \* ^version\s+\d+
         /\ LET e == RunEnd(l, 8, Spaces)
            IN  e > 8 /\ e <= Len(l) /\ In(l[e], Digits)
      \/ /\ StartsWith(l, <<112, 97, 103, 101>> (* 'page' *))                     \* ^page\s+\d+
         /\ LET e == RunEnd(l, 5, Spaces)
            IN  e > 5 /\ e <= Len(l) /\ In(l[e], Digits)
      \/ (Len(l) = 4 /\ IsDigitRun(l))                  \* ^\d{4}$
      \/ StartsWith(l, <<169>> (* 'U+00A9' *))                           \* ^[\xa9]
      \/ IsDigitRun(l)                                  \* ^\d+$
      \/ /\ Len(l) > 0                                  \* ^[ivx]+$
         /\ \A k \in 1..Len(l) : l[k] \in {105 (* 'i' *), 118 (* 'v' *), 120 (* 'x' *)}
      \/ StartsWith(l, <<119, 119, 119, 46>> (* 'www.' *))                        \* ^www\.
      \/ StartsWith(l, <<104, 116, 116, 112, 58, 47, 47>> (* 'http://' *))                     \* ^https?://
      \/ StartsWith(l, <<104, 116, 116, 112, 115, 58, 47, 47>> (* 'https://' *))
      \/ \A k \in 1..Len(l) : In(l[k], Spaces)           \* ^\s*$

\* re.sub(r'\s+', ' ', text)
CollapseSpaces(t) ==
  LET marked == [k \in 1..Len(t) |->
                   [c |-> IF In(t[k], Spaces) THEN 32 (* ' ' *) ELSE t[k],
                    first |-> ~In(t[k], Spaces) \/ k = 1
                                \/ ~In(t[k - 1], Spaces)]]
      kept == SelectSeq(marked, LAMBDA e : e.first)
  IN  [j \in 1..Len(kept) |-> kept[j].c]

\* r'\.+\s*\d*\s*$' matches the whole suffix that starts at index p
TrailerMatchesAt(t, p) ==
  /\ t[p] = 46 (* '.' *)
  /\ LET a == RunEnd(t, p, Dots)
         b == RunEnd(t, a, Spaces)
         c == RunEnd(t, b, Digits)
         d == RunEnd(t, c, Spaces)
     IN  d = Len(t) + 1

\* re.sub(r'\.+\s*\d*\s*$', '', text): the leftmost match is removed, and
\* it reaches the end of the text, so there is no second match
StripTrailer(t) ==
  IF \E p \in 1..Len(t) : TrailerMatchesAt(t, p)
    THEN LET p == CHOOSE q \in 1..Len(t) :
                    /\ TrailerMatchesAt(t, q)
                    /\ \A r \in 1..(q - 1) : ~TrailerMatchesAt(t, r)
         IN  SubSeq(t, 1, p - 1)
    ELSE t

\* _clean_heading_text
clean_heading_text(text) ==
  Strip(StripTrailer(CollapseSpaces(text)))

\* sum(1 for c in text if not c.isalnum() and c != ' ')
special_char_count(text) ==
  Cardinality({k \in 1..Len(text) : ~IsAlnum(text[k]) /\ text[k] # 32 (* ' ' *)})

\* the guards of the two neighbour accesses in _is_valid_heading
HasPrevLine(ls, line_index) ==
  line_index > 0

HasNextLine(ls, line_index) ==
  line_index < Len(ls) - 1

\* a neighbour access of _is_valid_heading reads self.lines at an index
\* past the end of the list (an IndexError)
NeighbourAccessRaises(ls, line_index) ==
  \/ HasPrevLine(ls, line_index) /\ line_index - 1 > Len(ls) - 1
  \/ HasNextLine(ls, line_index) /\ line_index + 1 > Len(ls) - 1

\* the text checks without the upper length bound
TextPlausibleNoUpperBound(text) ==
  /\ Len(text) >= 3
  /\ ~IsDigitStr(text)
  /\ ~(special_char_count(text) * 10 > Len(text) * 3)

\* the checks of _is_valid_heading on the candidate text alone
TextPlausible(text) ==
  /\ Len(text) >= 3
  /\ Len(text) <= 200
  /\ ~IsDigitStr(text)
  /\ ~(special_char_count(text) * 10 > Len(text) * 3)

\* context_score of _is_valid_heading
context_score(ls, line_index) ==
  (IF /\ HasPrevLine(ls, line_index)
      /\ line_index - 1 \in 0..(Len(ls) - 1)
      /\ Len(Strip(ls[line_index])) < 20
     THEN 1 ELSE 0)
  +
  (IF /\ HasNextLine(ls, line_index)
      /\ line_index + 1 \in 0..(Len(ls) - 1)
      /\ LET next_line == Strip(ls[line_index + 2])
         IN  next_line = <<>> \/ IsUpper(next_line[1])
     THEN 1 ELSE 0)

\* _is_valid_heading raises instead of returning
is_valid_heading_raises(ls, text, line_index) ==
  /\ TextPlausible(text)
  /\ NeighbourAccessRaises(ls, line_index)

\* _is_valid_heading
is_valid_heading(ls, text, line_index) ==
  /\ TextPlausible(text)
  /\ context_score(ls, line_index) >= 1

(***************************************************************************)
(* The patterns of the three detectors                                     *)
(***************************************************************************)

NoMatch ==
  [ok |-> FALSE, num |-> <<>>, text |-> <<>>, page |-> <<>>]

\* re.match(r'^(\d+)\.\s+(.+)$', line).  \s+ is greedy; it gives one
\* character back to (.+) only when the run of spaces reaches the end.
main_match(line) ==
  LET d == RunEnd(line, 1, Digits)
      s == RunEnd(line, d + 1, Spaces)
  IN  IF d > 1 /\ d <= Len(line) /\ line[d] = 46 (* '.' *) /\ s > d + 1
        THEN IF s <= Len(line)
               THEN [ok |-> TRUE, num |-> SubSeq(line, 1, d - 1),
                     text |-> From(line, s), page |-> <<>>]
             ELSE IF s > d + 2
               THEN [ok |-> TRUE, num |-> SubSeq(line, 1, d - 1),
                     text |-> From(line, Len(line)), page |-> <<>>]
             ELSE NoMatch
        ELSE NoMatch

\* re.match(r'^(\d+\.\d+)\s+(.+)$', line)
sub_match(line) ==
  LET d == RunEnd(line, 1, Digits)
      e == RunEnd(line, d + 1, Digits)
      s == RunEnd(line, e, Spaces)
  IN  IF d > 1 /\ d <= Len(line) /\ line[d] = 46 (* '.' *) /\ e > d + 1 /\ s > e
        THEN IF s <= Len(line)
               THEN [ok |-> TRUE, num |-> SubSeq(line, 1, e - 1),
                     text |-> From(line, s), page |-> <<>>]
             ELSE IF s > e + 1
               THEN [ok |-> TRUE, num |-> SubSeq(line, 1, e - 1),
                     text |-> From(line, Len(line)), page |-> <<>>]
             ELSE NoMatch
        ELSE NoMatch

\* the tail '(.+?)\s+(\d+)$' of a TOC entry pattern, where the leading \s+
\* of the pattern covers the run of spaces first..(last - 1): the greedy
\* \s+ is shortened from the right until the lazy (.+?) finds the leftmost
\* space r after which only spaces and then digits up to the end remain
TocTail(line, num, first, last) ==
  LET n  == Len(line)
      d0 == RunStart(line, n, Digits) + 1
      w0 == RunStart(line, d0 - 1, Spaces) + 1
      starts == {s \in (first + 1)..last :
                   \E r \in w0..(d0 - 1) : r >= s + 1}
  IN  IF d0 <= n /\ w0 <= d0 - 1 /\ starts # {}
        THEN LET s == CHOOSE x \in starts : \A y \in starts : y <= x
                 r == IF w0 >= s + 1 THEN w0 ELSE s + 1
             IN  [ok |-> TRUE, num |-> num,
                  text |-> SubSeq(line, s, r - 1),
                  page |-> From(line, d0)]
        ELSE NoMatch

\* re.match(r'^(\d+)\.\s+(.+?)\s+(\d+)$', line)
toc_main_match(line) ==
  LET d == RunEnd(line, 1, Digits)
      s == RunEnd(line, d + 1, Spaces)
  IN  IF d > 1 /\ d <= Len(line) /\ line[d] = 46 (* '.' *) /\ s > d + 1
        THEN TocTail(line, SubSeq(line, 1, d - 1), d + 1, s)
        ELSE NoMatch

\* re.match(r'^(\d+\.\d+)\s+(.+?)\s+(\d+)$', line)
toc_sub_match(line) ==
  LET d == RunEnd(line, 1, Digits)
      e == RunEnd(line, d + 1, Digits)
      s == RunEnd(line, e, Spaces)
  IN  IF d > 1 /\ d <= Len(line) /\ line[d] = 46 (* '.' *) /\ e > d + 1 /\ s > e
        THEN TocTail(line, SubSeq(line, 1, e - 1), e, s)
        ELSE NoMatch

\* a structural pattern: words separated by \s+, the last word with an
\* optional final 's' ('?'), optionally followed by '.*', anchored by ^ $
RECURSIVE WordsEnd(_, _, _)
\* index after the match of the words from index p, 0 when they do not match
WordsEnd(l, p, words) ==
  IF ~HasAt(l, p, Head(words)) THEN 0
  ELSE IF Len(words) = 1 THEN p + Len(Head(words))
  ELSE LET q == p + Len(Head(words))
           s == RunEnd(l, q, Spaces)
       IN  IF s > q THEN WordsEnd(l, s, Tail(words)) ELSE 0

PatternMatches(l, pat) ==
  LET e == WordsEnd(l, 1, pat.words)
  IN  /\ e # 0
      /\ \/ e = Len(l) + 1
         \/ pat.plural /\ e = Len(l) /\ l[e] = 115 (* 's' *)
         \/ pat.any

Pat(words, plural, any, level) ==
  [words |-> words, plural |-> plural, any |-> any, level |-> level]

\* structural_patterns, in the order of the dict
structural_patterns ==
  << Pat(<<<<97, 99, 107, 110, 111, 119, 108, 101, 100, 103, 101, 109, 101, 110, 116>> (* 'acknowledgement' *)>>, TRUE, FALSE, "H1"),
     Pat(<<<<97, 98, 115, 116, 114, 97, 99, 116>> (* 'abstract' *)>>, FALSE, FALSE, "H1"),
     Pat(<<<<105, 110, 116, 114, 111, 100, 117, 99, 116, 105, 111, 110>> (* 'introduction' *)>>, FALSE, FALSE, "H1"),
     Pat(<<<<99, 111, 110, 99, 108, 117, 115, 105, 111, 110>> (* 'conclusion' *)>>, FALSE, FALSE, "H1"),
     Pat(<<<<114, 101, 102, 101, 114, 101, 110, 99, 101>> (* 'reference' *)>>, TRUE, FALSE, "H1"),
     Pat(<<<<114, 101, 118, 105, 115, 105, 111, 110>> (* 'revision' *), <<104, 105, 115, 116, 111, 114, 121>> (* 'history' *)>>, FALSE, FALSE, "H1"),
     Pat(<<<<116, 97, 98, 108, 101>> (* 'table' *), <<111, 102>> (* 'of' *), <<99, 111, 110, 116, 101, 110, 116>> (* 'content' *)>>, TRUE, FALSE, "H1"),
     Pat(<<<<105, 110, 116, 101, 110, 100, 101, 100>> (* 'intended' *), <<97, 117, 100, 105, 101, 110, 99, 101>> (* 'audience' *)>>, FALSE, FALSE, "H2"),
     Pat(<<<<99, 97, 114, 101, 101, 114>> (* 'career' *), <<112, 97, 116, 104>> (* 'path' *)>>, TRUE, TRUE, "H2"),
     Pat(<<<<108, 101, 97, 114, 110, 105, 110, 103>> (* 'learning' *), <<111, 98, 106, 101, 99, 116, 105, 118, 101>> (* 'objective' *)>>, TRUE, FALSE, "H2"),
     Pat(<<<<101, 110, 116, 114, 121>> (* 'entry' *), <<114, 101, 113, 117, 105, 114, 101, 109, 101, 110, 116>> (* 'requirement' *)>>, TRUE, FALSE, "H2"),
     Pat(<<<<98, 117, 115, 105, 110, 101, 115, 115>> (* 'business' *), <<111, 117, 116, 99, 111, 109, 101>> (* 'outcome' *)>>, TRUE, FALSE, "H2"),
     Pat(<<<<99, 111, 110, 116, 101, 110, 116>> (* 'content' *)>>, FALSE, FALSE, "H2"),
     Pat(<<<<116, 114, 97, 100, 101, 109, 97, 114, 107>> (* 'trademark' *)>>, TRUE, FALSE, "H2") >>

\* index of the first structural pattern that matches line.lower().strip(),
\* 0 when none does
structural_match(line) ==
  LET l == Strip(Lower(line))
      hits == {k \in 1..Len(structural_patterns) :
                 PatternMatches(l, structural_patterns[k])}
  IN  IF hits = {} THEN 0 ELSE CHOOSE k \in hits : \A j \in hits : k <= j

(***************************************************************************)
(* Candidates and the detectors                                            *)
(***************************************************************************)

\* a heading dict of the detectors; confidence is in tenths (0.9 is 9)
Candidate(level, text, page, position, confidence) ==
  [level |-> level, text |-> text, page |-> page,
   position |-> position, confidence |-> confidence]

RECURSIVE Flatten(_)
\* headings.append in loop order: the concatenation of the per-line results
Flatten(ss) ==
  IF ss = <<>> THEN <<>> ELSE Head(ss) \o Flatten(Tail(ss))

\* the body of the loop of _extract_numbered_headings for the line at i
numbered_at(ls, ltp, i) ==
  LET line == ls[i + 1]
      mm == main_match(line)
      sm == sub_match(line)
  IN  IF is_noise_line(line) THEN <<>>
      ELSE IF mm.ok
        THEN LET text == clean_heading_text(mm.text)
             IN  IF is_valid_heading(ls, text, i)
                   THEN <<Candidate("H1", mm.num \o <<46, 32>> (* '. ' *) \o text,
                                    ltp[i], i, 9)>>
                   ELSE <<>>
      ELSE IF sm.ok
        THEN LET text == clean_heading_text(sm.text)
             IN  IF is_valid_heading(ls, text, i)
                   THEN <<Candidate("H2", sm.num \o <<32>> (* ' ' *) \o text,
                                    ltp[i], i, 8)>>
                   ELSE <<>>
      ELSE <<>>

\* the call of _is_valid_heading made for the line at i raises
numbered_raises_at(ls, i) ==
  LET line == ls[i + 1]
      mm == main_match(line)
      sm == sub_match(line)
  IN  /\ ~is_noise_line(line)
      /\ \/ mm.ok /\ is_valid_heading_raises(ls, clean_heading_text(mm.text), i)
         \/ ~mm.ok /\ sm.ok
              /\ is_valid_heading_raises(ls, clean_heading_text(sm.text), i)

\* _extract_numbered_headings
extract_numbered_headings(ls, ltp) ==
  Flatten([k \in 1..Len(ls) |-> numbered_at(ls, ltp, k - 1)])

\* the body of the loop of _extract_structural_headings for the line at i
structural_at(ls, ltp, i) ==
  LET line == ls[i + 1]
      k == structural_match(line)
  IN  IF k # 0 /\ is_valid_heading(ls, line, i)
        THEN <<Candidate(structural_patterns[k].level, line, ltp[i], i, 6)>>
        ELSE <<>>

structural_raises_at(ls, i) ==
  /\ structural_match(ls[i + 1]) # 0
  /\ is_valid_heading_raises(ls, ls[i + 1], i)

\* _extract_structural_headings
extract_structural_headings(ls, ltp) ==
  Flatten([k \in 1..Len(ls) |-> structural_at(ls, ltp, k - 1)])

\* 'table of contents' in line_lower
toc_enters(line) ==
  Contains(Strip(Lower(line)), <<116, 97, 98, 108, 101, 32, 111, 102, 32, 99, 111, 110, 116, 101, 110, 116, 115>> (* 'table of contents' *))

\* line_lower.startswith('page ') or
\* line_lower in ['abstract', 'introduction', 'acknowledgements']
toc_exits(line) ==
  LET line_lower == Strip(Lower(line))
  IN  \/ StartsWith(line_lower, <<112, 97, 103, 101, 32>> (* 'page ' *))
      \/ line_lower \in {<<97, 98, 115, 116, 114, 97, 99, 116>> (* 'abstract' *), <<105, 110, 116, 114, 111, 100, 117, 99, 116, 105, 111, 110>> (* 'introduction' *), <<97, 99, 107, 110, 111, 119, 108, 101, 100, 103, 101, 109, 101, 110, 116, 115>> (* 'acknowledgements' *)}

\* int(page_num) raises for the entry on the line at i
toc_entry_raises_at(ls, i) ==
  LET line == ls[i + 1]
      m1 == toc_main_match(line)
      m2 == toc_sub_match(line)
  IN  /\ line # <<>>
      /\ \/ m1.ok /\ to_int_raises(m1.page)
         \/ ~m1.ok /\ m2.ok /\ to_int_raises(m2.page)

\* the pattern loop of _extract_toc_headings for the line at i
toc_entry_at(ls, i) ==
  LET line == ls[i + 1]
      m1 == toc_main_match(line)
      m2 == toc_sub_match(line)
  IN  IF line = <<>> THEN <<>>
      ELSE IF m1.ok
        THEN <<Candidate("H1", m1.num \o <<32>> (* ' ' *) \o m1.text, ToInt(m1.page), i, 5)>>
      ELSE IF m2.ok
        THEN <<Candidate("H2", m2.num \o <<32>> (* ' ' *) \o m2.text, ToInt(m2.page), i, 5)>>
      ELSE <<>>

(***************************************************************************)
(* Deduplication, ordering and the title                                   *)
(***************************************************************************)

\* the order of two key tuples of one length in a Python comparison
LexLess(a, b) ==
  \E k \in 1..Len(a) :
    /\ a[k] < b[k]
    /\ \A m \in 1..(k - 1) : a[m] = b[m]

\* list.sort(key=...): the stable sort of s by the key tuples keys[i]
SortStable(s, keys) ==
  LET rank(i) == Cardinality({j \in 1..Len(s) :
                     \/ LexLess(keys[j], keys[i])
                     \/ (keys[j] = keys[i] /\ j <= i)})
  IN  [r \in 1..Len(s) |-> s[CHOOSE i \in 1..Len(s) : rank(i) = r]]

\* key=lambda x: (-x['confidence'], x['position'])
confidence_sort_key(h) ==
  <<0 - h.confidence, h.position>>

\* headings.sort(key=lambda x: (-x['confidence'], x['position']))
sort_by_confidence(hs) ==
  SortStable(hs, [k \in 1..Len(hs) |-> confidence_sort_key(hs[k])])

\* the deduplication key without lower()
dedup_key_case_sensitive(h) ==
  <<Strip(h.text), h.page>>

\* key = (heading['text'].lower().strip(), heading['page'])
dedup_key(h) ==
  <<Strip(Lower(h.text)), h.page>>

\* the loop over the sorted headings: the first heading of every key
unique_headings(sorted) ==
  LET marked == [k \in 1..Len(sorted) |->
                   [h |-> sorted[k],
                    first |-> \A j \in 1..(k - 1) :
                                dedup_key(sorted[j]) # dedup_key(sorted[k])]]
      kept == SelectSeq(marked, LAMBDA e : e.first)
  IN  [k \in 1..Len(kept) |-> kept[k].h]

\* the generator of the final sort key has a heading to yield
lookup_found(sorted, x) ==
  \E k \in 1..Len(sorted) : sorted[k].text = x.text /\ sorted[k].page = x.page

\* next(h['position'] for h in headings
\*      if h['text'] == x['text'] and h['page'] == x['page'])
lookup_position(sorted, x) ==
  LET k == CHOOSE j \in 1..Len(sorted) :
             /\ sorted[j].text = x.text /\ sorted[j].page = x.page
             /\ \A r \in 1..(j - 1) :
                  ~(sorted[r].text = x.text /\ sorted[r].page = x.page)
  IN  sorted[k].position

\* the retained headings left in the order of the confidence sort
final_order_unsorted(unique, sorted) ==
  unique

\* unique_headings.sort(key=...): the retained headings in output order
final_order(unique, sorted) ==
  SortStable(unique,
             [k \in 1..Len(unique) |-> <<lookup_position(sorted, unique[k])>>])

\* clean_heading = {level, text, page}
Heading(h) ==
  [level |-> h.level, text |-> h.text, page |-> h.page]

UnknownDocument ==
  <<85, 110, 107, 110, 111, 119, 110, 32, 68, 111, 99, 117, 109, 101, 110, 116>> (* 'Unknown Document' *)

\* the test of the title loop on one line
title_line(line) ==
  /\ Len(line) > 10
  /\ ~(RunEnd(line, 1, Digits) > 1 /\ RunEnd(line, 1, Digits) <= Len(line)
        /\ line[RunEnd(line, 1, Digits)] = 46 (* '.' *))
  /\ ~is_noise_line(line)
  /\ ~StartsWith(Lower(line), <<112, 97, 103, 101, 32>> (* 'page ' *))

\* self.lines[:10]
TitleWindow ==
  10

\* the first line of self.lines[:10] that passes the test, 0 when none does
first_title_line(ls) ==
  LET n == IF Len(ls) < TitleWindow THEN Len(ls) ELSE TitleWindow
      hits == {k \in 1..n : title_line(ls[k])}
  IN  IF hits = {} THEN 0 ELSE CHOOSE k \in hits : \A j \in hits : k <= j

\* _determine_document_title
determine_document_title(ls, hs) ==
  IF hs = <<>> THEN UnknownDocument
  ELSE IF first_title_line(ls) # 0 THEN ls[first_title_line(ls)]
  ELSE hs[1].text

(***************************************************************************)
(* Inputs                                                                  *)
(***************************************************************************)

\* most raw lines in an input text
MaxLines ==
  3

\* most characters in an input of the cleaning function
MaxTextLen ==
  5

RECURSIVE JoinLines(_)
\* '\n'.join(raw)
JoinLines(raw) ==
  IF raw = <<>> THEN <<>>
  ELSE IF Len(raw) = 1 THEN raw[1]
  ELSE raw[1] \o <<10 (* '\n' *)>> \o JoinLines(Tail(raw))

\* every text of at most MaxLines raw lines drawn from pool
TextsOver(pool) ==
  {JoinLines(raw) : raw \in UNION {[1..n -> pool] : n \in 0..MaxLines}}

\* raw lines the input texts are made of
LinePool ==
  { <<65, 98, 115, 116, 114, 97, 99, 116>> (* 'Abstract' *),
    <<97, 98, 115, 116, 114, 97, 99, 116>> (* 'abstract' *),
    <<49, 46, 32, 73, 110, 116, 114, 111, 100, 117, 99, 116, 105, 111, 110>> (* '1. Introduction' *),
    <<49, 46, 49, 32, 79, 118, 101, 114, 118, 105, 101, 119, 32, 55>> (* '1.1 Overview 7' *),
    <<84, 97, 98, 108, 101, 32, 111, 102, 32, 67, 111, 110, 116, 101, 110, 116, 115>> (* 'Table of Contents' *),
    <<49, 46, 32, 73, 110, 116, 114, 111, 100, 117, 99, 116, 105, 111, 110, 32, 53>> (* '1. Introduction 5' *),
    <<80, 97, 103, 101, 32, 49, 32, 111, 102, 32, 49, 48>> (* 'Page 1 of 10' *),
    <<80, 97, 103, 101, 32, 1634, 32, 111, 102, 32, 49, 48>> (* 'Page U+0662 of 10' *),
    <<80, 97, 103, 101, 32, 50, 32, 84, 97, 98, 108, 101, 32, 111, 102, 32, 67, 111, 110, 116, 101, 110, 116, 115>> (* 'Page 2 Table of Contents' *),
    <<116, 104, 105, 115, 32, 105, 115, 32, 112, 108, 97, 105, 110, 32, 98, 111, 100, 121, 32, 116, 101, 120, 116>> (* 'this is plain body text' *),
    <<119, 119, 119, 46, 97, 100, 111, 98, 101, 46, 99, 111, 109>> (* 'www.adobe.com' *),
    <<8195, 9>> (* 'U+2003\t' *) }

\* characters the inputs of the cleaning function are made of
CleanAlphabet ==
  {65 (* 'A' *), 46 (* '.' *), 32 (* ' ' *), 49 (* '1' *)}

CleanInputs ==
  UNION {[1..n -> CleanAlphabet] : n \in 0..MaxTextLen}

(***************************************************************************)
(* The extraction as a state machine                                       *)
(***************************************************************************)

VARIABLES
  pdf_text,      \* self.pdf_text
  lines,         \* self.lines
  line_to_page,  \* self.line_to_page
  headings,      \* the list headings of extract_headings
  toc_headings,  \* the list headings of _extract_toc_headings
  in_toc,        \* in_toc of _extract_toc_headings
  toc_i,         \* the loop index i of _extract_toc_headings
  retained,      \* unique_headings with position and confidence kept
  outline,       \* cleaned_headings, result["outline"]
  title,         \* result["title"]
  cleaned,       \* a text and the results of cleaning it again and again
  pc             \* the statement extract_headings is at

vars ==
  <<pdf_text, lines, line_to_page, headings, toc_headings, in_toc, toc_i,
    retained, outline, title, cleaned, pc>>

\* AdvancedPDFHeadingExtractor(pdf_text)
InitOver(texts) ==
  /\ pdf_text \in texts
  /\ lines = StrippedLines(pdf_text)
  /\ line_to_page = <<>>
  /\ headings = <<>>
  /\ toc_headings = <<>>
  /\ in_toc = FALSE
  /\ toc_i = 0
  /\ retained = <<>>
  /\ outline = <<>>
  /\ title = <<>>
  /\ cleaned = <<>>
  /\ pc = "parse_page_info"

Init ==
  InitOver(TextsOver(LinePool))

\* n copies of the character c
Rep(c, n) ==
  [k \in 1..n |-> c]

\* a TOC entry of 400 characters
LongTocEntry ==
  <<49, 46, 32>> (* '1. ' *) \o Rep(65 (* 'A' *), 395) \o <<32, 53>> (* ' 5' *)

\* a numbered line of 400 characters that cleaning shortens to 'Abc'
LongDottedLine ==
  <<49, 46, 32, 65, 98, 99, 46>> (* '1. Abc.' *) \o Rep(55 (* '7' *), 393)

\* a structural line of 400 characters
LongCareerLine ==
  <<67, 97, 114, 101, 101, 114, 32, 80, 97, 116, 104, 115, 32>> (* 'Career Paths ' *) \o Rep(97 (* 'a' *), 387)

\* raw lines of the texts with 400-character lines
LongLinePool ==
  { LongTocEntry,
    LongDottedLine,
    LongCareerLine,
    <<84, 97, 98, 108, 101, 32, 111, 102, 32, 67, 111, 110, 116, 101, 110, 116, 115>> (* 'Table of Contents' *),
    <<65, 98, 115, 116, 114, 97, 99, 116>> (* 'Abstract' *),
    <<80, 97, 103, 101, 32, 49, 32, 111, 102, 32, 49, 48>> (* 'Page 1 of 10' *) }

InitLong ==
  InitOver(TextsOver(LongLinePool))

\* a page marker whose page number has one digit more than int() converts
HugePageMarker ==
  <<80, 97, 103, 101, 32>> (* 'Page ' *) \o Rep(49 (* '1' *), MaxStrDigits + 1) \o <<32, 111, 102, 32, 50>> (* ' of 2' *)

\* a TOC entry whose page number has one digit more than int() converts
HugeTocEntry ==
  <<49, 46, 32, 65, 32>> (* '1. A ' *) \o Rep(49 (* '1' *), MaxStrDigits + 1)

\* raw lines of the texts with page numbers that int() refuses
HugeNumberPool ==
  { HugePageMarker,
    HugeTocEntry,
    <<84, 97, 98, 108, 101, 32, 111, 102, 32, 67, 111, 110, 116, 101, 110, 116, 115>> (* 'Table of Contents' *),
    <<49, 46, 32, 73, 110, 116, 114, 111, 100, 117, 99, 116, 105, 111, 110, 32, 53>> (* '1. Introduction 5' *),
    <<80, 97, 103, 101, 32, 49, 32, 111, 102, 32, 49, 48>> (* 'Page 1 of 10' *) }

InitHuge ==
  InitOver(TextsOver(HugeNumberPool))

\* self._parse_page_info()
ParsePageInfo ==
  /\ pc = "parse_page_info"
  /\ IF parse_page_info_raises(lines)
       THEN /\ line_to_page' =
                 line_to_page_after(lines, first_raising_marker(lines) - 1)
            /\ pc' = "raised"
       ELSE /\ line_to_page' = parse_page_info(lines)
            /\ pc' = "numbered"
  /\ UNCHANGED <<pdf_text, lines, headings, toc_headings, in_toc, toc_i,
                 retained, outline, title, cleaned>>

\* headings.extend(self._extract_numbered_headings())
ExtractNumberedHeadings ==
  /\ pc = "numbered"
  /\ IF \E i \in 0..(Len(lines) - 1) : numbered_raises_at(lines, i)
       THEN pc' = "raised" /\ UNCHANGED headings
       ELSE /\ headings' = headings \o extract_numbered_headings(lines, line_to_page)
            /\ pc' = "structural"
  /\ UNCHANGED <<pdf_text, lines, line_to_page, toc_headings, in_toc, toc_i,
                 retained, outline, title, cleaned>>

\* headings.extend(self._extract_structural_headings())
ExtractStructuralHeadings ==
  /\ pc = "structural"
  /\ IF \E i \in 0..(Len(lines) - 1) : structural_raises_at(lines, i)
       THEN pc' = "raised" /\ UNCHANGED headings
       ELSE /\ headings' = headings \o extract_structural_headings(lines, line_to_page)
            /\ pc' = "toc"
  /\ UNCHANGED <<pdf_text, lines, line_to_page, toc_headings, in_toc, toc_i,
                 retained, outline, title, cleaned>>

\* _extract_toc_headings, one line: 'table of contents' in line_lower
TocEnter ==
  /\ pc = "toc"
  /\ toc_i < Len(lines)
  /\ toc_enters(lines[toc_i + 1])
  /\ in_toc' = TRUE
  /\ toc_i' = toc_i + 1
  /\ UNCHANGED <<pdf_text, lines, line_to_page, headings, toc_headings,
                 retained, outline, title, cleaned, pc>>

\* _extract_toc_headings, one line: the exit branch
TocExit ==
  /\ pc = "toc"
  /\ toc_i < Len(lines)
  /\ ~toc_enters(lines[toc_i + 1])
  /\ in_toc /\ toc_exits(lines[toc_i + 1])
  /\ in_toc' = FALSE
  /\ toc_i' = toc_i + 1
  /\ UNCHANGED <<pdf_text, lines, line_to_page, headings, toc_headings,
                 retained, outline, title, cleaned, pc>>

\* _extract_toc_headings, one line: the entry patterns, tried while in_toc
TocEntry ==
  /\ pc = "toc"
  /\ toc_i < Len(lines)
  /\ ~toc_enters(lines[toc_i + 1])
  /\ ~(in_toc /\ toc_exits(lines[toc_i + 1]))
  /\ IF in_toc /\ toc_entry_raises_at(lines, toc_i)
       THEN pc' = "raised" /\ UNCHANGED <<toc_headings, toc_i>>
       ELSE /\ toc_headings' = IF in_toc
                                  THEN toc_headings \o toc_entry_at(lines, toc_i)
                                  ELSE toc_headings
            /\ toc_i' = toc_i + 1
            /\ pc' = pc
  /\ UNCHANGED <<pdf_text, lines, line_to_page, headings, in_toc, retained,
                 outline, title, cleaned>>

\* return headings, at the end of the loop of _extract_toc_headings, and
\* headings.extend(...) of extract_headings
TocReturn ==
  /\ pc = "toc"
  /\ toc_i = Len(lines)
  /\ headings' = headings \o toc_headings
  /\ pc' = "clean"
  /\ UNCHANGED <<pdf_text, lines, line_to_page, toc_headings, in_toc, toc_i,
                 retained, outline, title, cleaned>>

\* cleaned_headings = self._clean_and_process_headings(headings)
CleanAndProcessHeadings ==
  /\ pc = "clean"
  /\ LET sorted == sort_by_confidence(headings)
         unique == unique_headings(sorted)
     IN  /\ headings' = sorted
         /\ IF \E k \in 1..Len(unique) : ~lookup_found(sorted, unique[k])
              THEN pc' = "raised" /\ UNCHANGED <<retained, outline>>
              ELSE /\ retained' = final_order(unique, sorted)
                   /\ outline' = [k \in 1..Len(unique) |->
                                    Heading(final_order(unique, sorted)[k])]
                   /\ pc' = "title"
  /\ UNCHANGED <<pdf_text, lines, line_to_page, toc_headings, in_toc, toc_i,
                 title, cleaned>>

\* title = self._determine_document_title(cleaned_headings); return
DetermineDocumentTitle ==
  /\ pc = "title"
  /\ title' = determine_document_title(lines, outline)
  /\ pc' = "done"
  /\ UNCHANGED <<pdf_text, lines, line_to_page, headings, toc_headings,
                 in_toc, toc_i, retained, outline, cleaned>>

Next ==
  \/ ParsePageInfo
  \/ ExtractNumberedHeadings
  \/ ExtractStructuralHeadings
  \/ TocEnter
  \/ TocExit
  \/ TocEntry
  \/ TocReturn
  \/ CleanAndProcessHeadings
  \/ DetermineDocumentTitle

Spec ==
  Init /\ [][Next]_vars

SpecLong ==
  InitLong /\ [][Next]_vars

SpecHuge ==
  InitHuge /\ [][Next]_vars

(***************************************************************************)
(* The cleaning function on its own                                        *)
(***************************************************************************)

InitClean ==
  /\ pdf_text = <<>>
  /\ lines = <<>>
  /\ line_to_page = <<>>
  /\ headings = <<>>
  /\ toc_headings = <<>>
  /\ in_toc = FALSE
  /\ toc_i = 0
  /\ retained = <<>>
  /\ outline = <<>>
  /\ title = <<>>
  /\ cleaned \in {<<x>> : x \in CleanInputs}
  /\ pc = "cleaning"

\* text = self._clean_heading_text(text), applied to the last result
CleanHeadingText ==
  /\ pc = "cleaning"
  /\ Len(cleaned) < 3
  /\ cleaned' = Append(cleaned, clean_heading_text(cleaned[Len(cleaned)]))
  /\ UNCHANGED <<pdf_text, lines, line_to_page, headings, toc_headings,
                 in_toc, toc_i, retained, outline, title, pc>>

NextClean ==
  CleanHeadingText

SpecClean ==
  InitClean /\ [][NextClean]_vars

(***************************************************************************)
(* Properties                                                              *)
(***************************************************************************)

\* the key of the uniqueness property: lower-cased, trimmed text and page
ClaimKey(h) ==
  <<Strip(Lower(h.text)), h.page>>

\* the outline has been computed
Resolved ==
  pc \in {"title", "done"}

\* C1: the outline has no two entries with the same key (lower-cased,
\* trimmed text; page)
OutlineKeysUnique ==
  Resolved =>
    \A a, b \in 1..Len(outline) :
      a # b => ClaimKey(outline[a]) # ClaimKey(outline[b])

\* C1 witness: two candidates that differ in case only share a key, and
\* deduplication has dropped one of them
DuplicateDropped ==
  /\ pc = "done"
  /\ Len(outline) < Len(headings)
  /\ \E a, b \in 1..Len(headings) :
       /\ headings[a].text # headings[b].text
       /\ ClaimKey(headings[a]) = ClaimKey(headings[b])

\* a comes before b in the order (-confidence, position)
ByConfidenceThenPosition(a, b) ==
  \/ a.confidence > b.confidence
  \/ a.confidence = b.confidence /\ a.position < b.position

\* h is the candidate deduplication retains for its key: no candidate with
\* the same key comes before it in the order (-confidence, position)
IsRetainedCandidate(h) ==
  /\ \E k \in 1..Len(headings) : headings[k] = h
  /\ \A k \in 1..Len(headings) :
       ClaimKey(headings[k]) = ClaimKey(h) =>
         ~ByConfidenceThenPosition(headings[k], h)

\* C2: every outline entry is the projection of the candidate retained for
\* it, and the entries are in non-decreasing order of the positions of
\* these candidates' source lines
OutlineInPositionOrder ==
  Resolved =>
    /\ Len(retained) = Len(outline)
    /\ \A k \in 1..Len(outline) :
         /\ outline[k] = Heading(retained[k])
         /\ IsRetainedCandidate(retained[k])
    /\ \A k \in 1..(Len(retained) - 1) :
         retained[k].position <= retained[k + 1].position

\* C2 witness: an entry of lower confidence stands before one of higher
\* confidence, so the order is not the order of the confidence sort
PositionOrderDiffersFromConfidenceOrder ==
  /\ pc = "done"
  /\ \E k \in 1..(Len(retained) - 1) :
       /\ retained[k].confidence < retained[k + 1].confidence
       /\ retained[k].position < retained[k + 1].position

\* the title the title rule of the specification gives
ClaimTitle ==
  IF first_title_line(lines) # 0 THEN lines[first_title_line(lines)]
  ELSE IF outline # <<>> THEN outline[1].text
  ELSE UnknownDocument

\* C3: the title is the first qualifying line of the first 10 lines, also
\* when the outline is empty; the first outline entry and then
\* "Unknown Document" are used only when no line qualifies
TitleIsFirstQualifyingLine ==
  pc = "done" => title = ClaimTitle

\* the context score as the specification states it: an absent neighbour
\* counts +1
ClaimContextScore(ls, i) ==
  (IF i = 0 \/ Len(ls[i]) < 20 THEN 1 ELSE 0)
  +
  (IF i = Len(ls) - 1 \/ IsUpper(ls[i + 2][1]) THEN 1 ELSE 0)

\* C4: a non-noise line '<digits>. <rest>' with a plausible cleaned rest is
\* accepted as H1 '<digits>. cleaned(rest)' on the page in effect iff its
\* context score, with absent neighbours counting +1, is at least 1
NumberedAcceptedIffContext ==
  pc = "done" =>
    \A i \in 0..(Len(lines) - 1) :
      LET line == lines[i + 1]
          mm == main_match(line)
          text == clean_heading_text(mm.text)
      IN  (~is_noise_line(line) /\ mm.ok /\ TextPlausible(text)) =>
            ((\E k \in 1..Len(headings) :
                headings[k] = Candidate("H1", mm.num \o <<46, 32>> (* '. ' *) \o text,
                                        line_to_page[i], i, 9))
             <=> ClaimContextScore(lines, i) >= 1)

\* the trigger and exit lines of the TOC detector, as the specification
\* states them
ClaimTrigger(line) ==
  Contains(Lower(line), <<116, 97, 98, 108, 101, 32, 111, 102, 32, 99, 111, 110, 116, 101, 110, 116, 115>> (* 'table of contents' *))

ClaimExit(line) ==
  \/ StartsWith(Lower(line), <<112, 97, 103, 101, 32>> (* 'page ' *))
  \/ Lower(line) \in {<<97, 98, 115, 116, 114, 97, 99, 116>> (* 'abstract' *), <<105, 110, 116, 114, 111, 100, 117, 99, 116, 105, 111, 110>> (* 'introduction' *), <<97, 99, 107, 110, 111, 119, 108, 101, 100, 103, 101, 109, 101, 110, 116, 115>> (* 'acknowledgements' *)}

\* the state of the claim's detector before the line at position i: it
\* starts in NORMAL; an exit line met while IN_TOC leaves it in NORMAL,
\* whatever else the line contains; any other line that contains
\* "table of contents" leaves it IN_TOC; every other line leaves it as
\* it is
RECURSIVE ClaimInToc(_)
ClaimInToc(i) ==
  IF i = 0 THEN FALSE
  ELSE IF ClaimInToc(i - 1) /\ ClaimExit(lines[i]) THEN FALSE
  ELSE IF ClaimTrigger(lines[i]) THEN TRUE
  ELSE ClaimInToc(i - 1)

\* the candidates of the TOC detector
TocCandidates ==
  {toc_headings[k] : k \in 1..Len(toc_headings)}

\* the example of the specification
TocExample ==
  JoinLines(<<<<84, 97, 98, 108, 101, 32, 111, 102, 32, 67, 111, 110, 116, 101, 110, 116, 115>> (* 'Table of Contents' *), <<49, 46, 32, 73, 110, 116, 114, 111, 100, 117, 99, 116, 105, 111, 110, 32, 53>> (* '1. Introduction 5' *), <<80, 97, 103, 101, 32, 49, 32, 111, 102, 32, 49, 48>> (* 'Page 1 of 10' *)>>)

\* C5: the TOC detector starts in NORMAL; a TOC candidate comes only from
\* an entry-pattern line processed while IN_TOC, never from a trigger or
\* exit line and never from a line after an exit line unless another
\* "table of contents" line came in between, with the entry's trailing
\* number as its page; the example yields {H1, "1 Introduction", 5} as
\* its only TOC heading
TocCandidatesOnlyInToc ==
  /\ (toc_i = 0 => ~in_toc)
  /\ (pc = "toc" => (in_toc <=> ClaimInToc(toc_i)))
  /\ \A h \in TocCandidates :
       LET line == lines[h.position + 1]
       IN  /\ ClaimInToc(h.position)
           /\ ~ClaimTrigger(line)
           /\ ~ClaimExit(line)
           /\ (toc_main_match(line).ok \/ toc_sub_match(line).ok)
           /\ h.page = ToInt(From(line, RunStart(line, Len(line), Digits) + 1))
  /\ (pc = "done" /\ pdf_text = TocExample) =>
       /\ TocCandidates =
            {Candidate("H1", <<49, 32, 73, 110, 116, 114, 111, 100, 117, 99, 116, 105, 111, 110>> (* '1 Introduction' *), 5, 1, 5)}
       /\ \E k \in 1..Len(outline) :
            outline[k] = [level |-> "H1", text |-> <<49, 32, 73, 110, 116, 114, 111, 100, 117, 99, 116, 105, 111, 110>> (* '1 Introduction' *), page |-> 5]

\* the text the validity filter sees for the candidate h: the cleaned rest
\* of a numbered match, the line itself for a structural match
ValidatedText(h) ==
  LET line == lines[h.position + 1]
  IN  IF h.confidence = 9 THEN clean_heading_text(main_match(line).text)
      ELSE IF h.confidence = 8 THEN clean_heading_text(sub_match(line).text)
      ELSE line

\* C6 as stated: a line of 400 characters is never the source line of an
\* outline entry
LongLineNeverSource ==
  Resolved =>
    \A k \in 1..Len(retained) : Len(lines[retained[k].position + 1]) # 400

\* C6 as amended: a numbered or structural outline entry never comes from
\* a candidate text of more than 200 characters
LongTextNeverHeading ==
  Resolved =>
    \A k \in 1..Len(retained) :
      retained[k].confidence # 5 => Len(ValidatedText(retained[k])) <= 200

\* C6 witness: a numbered match on a 400-character line whose cleaned text
\* is longer than 200 characters had a context score of 1 or more and
\* yielded no entry, while another line yielded one
LongTextRejected ==
  /\ pc = "done"
  /\ outline # <<>>
  /\ \E i \in 0..(Len(lines) - 1) :
       /\ Len(lines[i + 1]) = 400
       /\ main_match(lines[i + 1]).ok
       /\ Len(clean_heading_text(main_match(lines[i + 1]).text)) > 200
       /\ context_score(lines, i) >= 1
       /\ \A k \in 1..Len(retained) :
            retained[k].position = i => retained[k].confidence = 5

\* every line is a noise line
AllNoise ==
  \A k \in 1..Len(lines) : is_noise_line(lines[k])

\* C7: an input whose non-blank lines are all noise lines yields no
\* candidate from any detector, and extract_headings returns the outline
\* [] and the title "Unknown Document" for it
NoiseOnlyYieldsNothing ==
  AllNoise =>
    /\ headings = <<>>
    /\ toc_headings = <<>>
    /\ pc # "raised"
    /\ (pc = "done" => outline = <<>> /\ title = UnknownDocument)

\* C8: extract_headings never raises and does not stop before its result:
\* the position lookup finds a source for every retained entry, no
\* neighbour access of the validity filter leaves the line list, and the
\* result has a title
NeverRaises ==
  /\ pc # "raised"
  /\ pc \in {"parse_page_info", "numbered", "structural", "toc", "clean",
             "title", "done"}
  /\ toc_i \in 0..Len(lines)
  /\ (Resolved => \A k \in 1..Len(retained) :
                     lookup_found(headings, retained[k]))
  /\ (pc = "done" => title # <<>>)

\* C9: cleaning a cleaned text changes nothing
CleanIsIdempotent ==
  Len(cleaned) = 3 => cleaned[3] = cleaned[2]

\* C10: an exit line processed while IN_TOC leaves the detector in NORMAL
\* and yields no candidate, also when the line contains
\* "table of contents"
ExitLineLeavesToc ==
  [][(pc = "toc" /\ toc_i < Len(lines) /\ in_toc
        /\ ClaimExit(lines[toc_i + 1]))
       => (~in_toc' /\ toc_headings' = toc_headings)]_vars

====
